---- MODULE Spec2Model ----
(***************************************************************************)
(* Model of the Python project analysis service (python_project_mcp.py):   *)
(* the configured root, the filesystem it reads, and the handlers that     *)
(* walk the tree, index source files, parse manifests, tally imports and   *)
(* search code.  Text is modelled as sequences of one-character strings,   *)
(* paths as sequences of names.                                            *)
(***************************************************************************)
EXTENDS Integers, Sequences, FiniteSets, TLC

VARIABLES
    root_directory,   \* self.root_directory: None or an absolute path
    fs,               \* the filesystem: absolute path -> node
    scandir_order,    \* order in which the OS lists a directory
    call,             \* the handler or method last invoked, with its arguments
    result,           \* what that invocation returned
    fs_access,        \* whether that invocation touched the filesystem
    set_reported,     \* whether some set_project_root call has reported success
    root_before       \* self.root_directory when the last set_project_root began

vars ==
    <<root_directory, fs, scandir_order, call, result, fs_access,
      set_reported, root_before>>

None == "None"

(***************************************************************************)
(* Characters and the str methods the program uses                         *)
(***************************************************************************)
Ascii == <<" ", "!", "\"", "#", "$", "%", "&", "'", "(", ")", "*", "+", ",",
           "-", ".", "/", "0", "1", "2", "3", "4", "5", "6", "7", "8", "9",
           ":", ";", "<", "=", ">", "?", "@", "A", "B", "C", "D", "E", "F",
           "G", "H", "I", "J", "K", "L", "M", "N", "O", "P", "Q", "R", "S",
           "T", "U", "V", "W", "X", "Y", "Z", "[", "backslash", "]", "^", "_", "backtick",
           "a", "b", "c", "d", "e", "f", "g", "h", "i", "j", "k", "l", "m",
           "n", "o", "p", "q", "r", "s", "t", "u", "v", "w", "x", "y", "z",
           "{", "|", "}", "~">>

\* the code points of the characters the model uses
CodePoint ==
    [c \in {Ascii[i] : i \in 1..Len(Ascii)} |->
        31 + (CHOOSE i \in 1..Len(Ascii) : Ascii[i] = c)]
    @@ ("\t" :> 9) @@ ("\n" :> 10) @@ ("\r" :> 13) @@ ("\f" :> 12)

isspace(c) == c \in {" ", "\t", "\n", "\r", "\f"}

lower_char(c) ==
    IF CodePoint[c] \in 65..90 THEN Ascii[CodePoint[c] + 32 - 31] ELSE c

lower(s) == <<>> \o [i \in 1..Len(s) |-> lower_char(s[i])]

RECURSIVE lstrip(_)
lstrip(s) ==
    IF s = <<>> THEN s
    ELSE IF isspace(Head(s)) THEN lstrip(Tail(s)) ELSE s

RECURSIVE rstrip(_)
rstrip(s) ==
    IF s = <<>> THEN s
    ELSE IF isspace(s[Len(s)]) THEN rstrip(SubSeq(s, 1, Len(s) - 1)) ELSE s

strip(s) == rstrip(lstrip(s))

RECURSIVE lstrip_chars(_, _)
lstrip_chars(s, cs) ==
    IF s = <<>> THEN s
    ELSE IF Head(s) \in cs THEN lstrip_chars(Tail(s), cs) ELSE s

RECURSIVE rstrip_chars(_, _)
rstrip_chars(s, cs) ==
    IF s = <<>> THEN s
    ELSE IF s[Len(s)] \in cs THEN rstrip_chars(SubSeq(s, 1, Len(s) - 1), cs)
    ELSE s

strip_chars(s, cs) == rstrip_chars(lstrip_chars(s, cs), cs)

\* the characters of s at indices i..j that exist, as slicing gives them
slice(s, i, j) ==
    IF i > Len(s) \/ j < i THEN <<>>
    ELSE SubSeq(s, i, IF j > Len(s) THEN Len(s) ELSE j)

startswith(s, p) == Len(s) >= Len(p) /\ SubSeq(s, 1, Len(p)) = p

endswith(s, p) ==
    Len(s) >= Len(p) /\ SubSeq(s, Len(s) - Len(p) + 1, Len(s)) = p

\* index (from 1) of the first occurrence of sub in s, 0 when there is none
find(s, sub) ==
    LET hits == {i \in 1..(Len(s) - Len(sub) + 1) :
                    SubSeq(s, i, i + Len(sub) - 1) = sub}
    IN  IF hits = {} THEN 0
        ELSE CHOOSE i \in hits : \A j \in hits : i <= j

\* sub in s
contains(s, sub) == find(s, sub) # 0

\* s.split(sep) for a separator of several characters
RECURSIVE split_str(_, _)
split_str(s, sep) ==
    LET i == find(s, sep)
    IN  IF i = 0 THEN <<s>>
        ELSE <<SubSeq(s, 1, i - 1)>>
                 \o split_str(SubSeq(s, i + Len(sep), Len(s)), sep)

\* s.split(c) for a single character: the pieces between its occurrences
split_char(s, c) ==
    LET cuts == SelectSeq(<<>> \o [i \in 1..Len(s) |-> i],
                          LAMBDA i : s[i] = c)
    IN  <<>> \o [k \in 1..(Len(cuts) + 1) |->
                    SubSeq(s, IF k = 1 THEN 1 ELSE cuts[k - 1] + 1,
                           IF k > Len(cuts) THEN Len(s) ELSE cuts[k] - 1)]

\* s.split(sep) for a non-empty separator
split(s, sep) ==
    IF Len(sep) = 1 THEN split_char(s, sep[1]) ELSE split_str(s, sep)

\* s.split(): the maximal runs of non-whitespace characters
RECURSIVE split_ws(_)
split_ws(s) ==
    LET t == lstrip(s)
        stops == {i \in 1..Len(t) : isspace(t[i])}
        e == IF stops = {} THEN Len(t) + 1
             ELSE CHOOSE i \in stops : \A j \in stops : i <= j
    IN  IF t = <<>> THEN <<>>
        ELSE <<SubSeq(t, 1, e - 1)>> \o split_ws(SubSeq(t, e, Len(t)))

\* "\n".join(lines)
RECURSIVE join_lines(_)
join_lines(lines) ==
    IF lines = <<>> THEN <<>>
    ELSE IF Len(lines) = 1 THEN lines[1]
    ELSE LET mid == Len(lines) \div 2
         IN  join_lines(SubSeq(lines, 1, mid)) \o <<"\n">>
                 \o join_lines(SubSeq(lines, mid + 1, Len(lines)))

\* str comparison: by code point, a proper prefix first
RECURSIVE str_lt(_, _)
str_lt(a, b) ==
    IF b = <<>> THEN FALSE
    ELSE IF a = <<>> THEN TRUE
    ELSE IF Head(a) = Head(b) THEN str_lt(Tail(a), Tail(b))
    ELSE CodePoint[Head(a)] < CodePoint[Head(b)]

(***************************************************************************)
(* Configuration constants of the program                                  *)
(***************************************************************************)
PYTHON_EXTENSIONS == {<<".", "p", "y">>, <<".", "p", "y", "x">>, <<".", "p", "y", "i">>}

DOC_EXTENSIONS == {<<".", "m", "d">>, <<".", "r", "s", "t">>, <<".", "t", "x", "t">>}

REQUIREMENTS_FILES ==
    {<<"r", "e", "q", "u", "i", "r", "e", "m", "e", "n", "t", "s", ".", "t", "x", "t">>, <<"r", "e", "q", "u", "i", "r", "e", "m", "e", "n", "t", "s", "-", "d", "e", "v", ".", "t", "x", "t">>, <<"p", "y", "p", "r", "o", "j", "e", "c", "t", ".", "t", "o", "m", "l">>,
     <<"s", "e", "t", "u", "p", ".", "p", "y">>, <<"s", "e", "t", "u", "p", ".", "c", "f", "g">>, <<"P", "i", "p", "f", "i", "l", "e">>}

EXCLUDE_DIRS ==
    {<<"_", "_", "p", "y", "c", "a", "c", "h", "e", "_", "_">>, <<".", "g", "i", "t">>, <<".", "s", "v", "n">>, <<".", "h", "g">>, <<".", "b", "z", "r">>,
     <<".", "t", "o", "x">>, <<".", "p", "y", "t", "e", "s", "t", "_", "c", "a", "c", "h", "e">>, <<".", "m", "y", "p", "y", "_", "c", "a", "c", "h", "e">>, <<".", "c", "o", "v", "e", "r", "a", "g", "e">>,
     <<"n", "o", "d", "e", "_", "m", "o", "d", "u", "l", "e", "s">>, <<".", "v", "e", "n", "v">>, <<"v", "e", "n", "v">>, <<"e", "n", "v">>, <<".", "e", "n", "v">>,
     <<"b", "u", "i", "l", "d">>, <<"d", "i", "s", "t">>, <<".", "e", "g", "g", "-", "i", "n", "f", "o">>, <<".", "e", "g", "g", "s">>, <<"h", "t", "m", "l", "c", "o", "v">>}

MAX_FILE_SIZE == 1024 * 1024

(***************************************************************************)
(* The filesystem.  A path is a sequence of names below "/"; F maps every  *)
(* existing path to its node.                                              *)
(***************************************************************************)
Dir(listable) ==
    [kind |-> "dir", readable |-> listable, size |-> 0, content |-> <<>>,
     utf8 |-> TRUE]

File(text) ==
    [kind |-> "file", readable |-> TRUE, size |-> Len(text), content |-> text,
     utf8 |-> TRUE]

\* a file of the given st_size whose text is not spelled out in full
SizedFile(bytes, text, decodes) ==
    [kind |-> "file", readable |-> TRUE, size |-> bytes, content |-> text,
     utf8 |-> decodes]

parent(p) == SubSeq(p, 1, Len(p) - 1)

name(p) == p[Len(p)]

is_under(p, d) == Len(p) > Len(d) /\ SubSeq(p, 1, Len(d)) = d

NoSuchPath == <<<<"/">>>>

\* the path the OS reaches for p: ".." steps to the parent of a directory
RECURSIVE os_walk(_, _, _)
os_walk(F, cur, rest) ==
    IF rest = <<>> THEN cur
    ELSE IF cur # <<>> /\ (cur \notin DOMAIN F \/ F[cur].kind # "dir")
    THEN NoSuchPath
    ELSE IF Head(rest) = <<".", ".">>
    THEN os_walk(F, IF cur = <<>> THEN cur ELSE parent(cur), Tail(rest))
    ELSE IF Head(rest) = <<".">> THEN os_walk(F, cur, Tail(rest))
    ELSE os_walk(F, Append(cur, Head(rest)), Tail(rest))

os_path(F, p) == os_walk(F, <<>>, p)

\* Path.resolve(): ".." and "." are removed lexically
RECURSIVE resolve_parts(_, _)
resolve_parts(cur, rest) ==
    IF rest = <<>> THEN cur
    ELSE IF Head(rest) = <<".", ".">>
    THEN resolve_parts(IF cur = <<>> THEN cur ELSE parent(cur), Tail(rest))
    ELSE IF Head(rest) = <<".">> THEN resolve_parts(cur, Tail(rest))
    ELSE resolve_parts(Append(cur, Head(rest)), Tail(rest))

resolve(p) == resolve_parts(<<>>, p)

exists(F, p) == os_path(F, p) = <<>> \/ os_path(F, p) \in DOMAIN F

is_dir(F, p) ==
    \/ os_path(F, p) = <<>>
    \/ os_path(F, p) \in DOMAIN F /\ F[os_path(F, p)].kind = "dir"

is_file(F, p) ==
    os_path(F, p) \in DOMAIN F /\ F[os_path(F, p)].kind = "file"

stat(F, p) == IF os_path(F, p) = <<>> THEN Dir(TRUE) ELSE F[os_path(F, p)]

\* os.scandir fails with PermissionError on a directory without permissions
listable(F, p) == p = <<>> \/ F[p].readable

\* os.stat(p) fails with PermissionError: a directory above p has no permissions
denied(F, p) ==
    \E k \in 1..(Len(p) - 1) :
        SubSeq(p, 1, k) \in DOMAIN F /\ ~F[SubSeq(p, 1, k)].readable

\* PurePath ordering: part by part, each part as a str
RECURSIVE path_lt(_, _)
path_lt(a, b) ==
    IF b = <<>> THEN FALSE
    ELSE IF a = <<>> THEN TRUE
    ELSE IF Head(a) = Head(b) THEN path_lt(Tail(a), Tail(b))
    ELSE str_lt(Head(a), Head(b))

\* a sort key: an integer, then a sequence of str
Key(n, parts) == [n |-> n, parts |-> parts]

key_lt(a, b) == a.n < b.n \/ (a.n = b.n /\ path_lt(a.parts, b.parts))

\* ps, sorted by key, with x put after every element that is not after it
RECURSIVE insort(_, _)
insort(ps, x) ==
    IF ps = <<>> THEN <<x>>
    ELSE IF key_lt(x.key, ps[Len(ps)].key)
    THEN Append(insort(SubSeq(ps, 1, Len(ps) - 1), x), ps[Len(ps)])
    ELSE Append(ps, x)

RECURSIVE sort_pairs(_)
sort_pairs(ps) ==
    IF ps = <<>> THEN <<>>
    ELSE insort(sort_pairs(SubSeq(ps, 1, Len(ps) - 1)), ps[Len(ps)])

RECURSIVE values(_)
values(ps) ==
    IF ps = <<>> THEN <<>> ELSE <<Head(ps).value>> \o values(Tail(ps))

\* sorted(s, key=...): stable and ascending; keys[i] is the key of s[i]
sorted(s, keys) ==
    values(sort_pairs(<<>> \o [i \in 1..Len(s) |->
                                 [key |-> keys[i], value |-> s[i]]]))

\* sorted(s) for a list of paths
sorted_paths(s) == sorted(s, [i \in 1..Len(s) |-> Key(0, s[i])])

RECURSIVE SetToSeq(_)
SetToSeq(S) ==
    IF S = {} THEN <<>>
    ELSE LET x == CHOOSE y \in S : TRUE IN <<x>> \o SetToSeq(S \ {x})

Reverse(s) == [i \in 1..Len(s) |-> s[Len(s) + 1 - i]]

\* path.iterdir(): the entries of a directory in the order the OS lists them
iterdir(F, order, p) ==
    LET byName == sorted_paths(SetToSeq({q \in DOMAIN F : parent(q) = p}))
    IN  IF order = "asc" THEN byName ELSE Reverse(byName)

\* root.rglob("*" + ext): every entry below root whose name ends with ext;
\* a directory that cannot be listed is passed over silently
rglob(F, root, ext) ==
    {q \in DOMAIN F :
        /\ is_under(q, root)
        /\ endswith(name(q), ext)
        /\ \A k \in Len(root)..(Len(q) - 1) : listable(F, SubSeq(q, 1, k))}

relative_to(p, root) == SubSeq(p, Len(root) + 1, Len(p))

\* open(file_path, 'r'): "\r\n" and "\r" are read as "\n"
universal_newlines(s) ==
    LET kept == SelectSeq(<<>> \o [i \in 1..Len(s) |-> i],
                          LAMBDA i : ~(s[i] = "\n" /\ i > 1 /\ s[i - 1] = "\r"))
    IN  <<>> \o [k \in 1..Len(kept) |->
                    IF s[kept[k]] = "\r" THEN "\n" ELSE s[kept[k]]]

(***************************************************************************)
(* _read_file_content                                                      *)
(***************************************************************************)
\* _read_file_content with the size test written  >=  : a file of exactly
\* MAX_FILE_SIZE bytes is refused
_read_file_content_refusing_cap(F, file_path) ==
    IF denied(F, file_path)
    THEN [ok |-> FALSE, exc |-> "PermissionError", size |-> 0]
    ELSE IF ~exists(F, file_path)
    THEN [ok |-> FALSE, exc |-> "FileNotFoundError", size |-> 0]
    ELSE IF stat(F, file_path).size >= MAX_FILE_SIZE
    THEN [ok |-> FALSE, exc |-> "ValueError",
          size |-> stat(F, file_path).size]
    ELSE IF is_dir(F, file_path)
    THEN [ok |-> FALSE, exc |-> "IsADirectoryError", size |-> 0]
    ELSE [ok |-> TRUE,
          text |-> universal_newlines(stat(F, file_path).content),
          encoding |-> IF stat(F, file_path).utf8 THEN "utf-8"
                       ELSE "latin-1"]

_read_file_content(F, file_path) ==
    IF denied(F, file_path)
    THEN [ok |-> FALSE, exc |-> "PermissionError", size |-> 0]
    ELSE IF ~exists(F, file_path)
    THEN [ok |-> FALSE, exc |-> "FileNotFoundError", size |-> 0]
    ELSE IF stat(F, file_path).size > MAX_FILE_SIZE
    THEN [ok |-> FALSE, exc |-> "ValueError",
          size |-> stat(F, file_path).size]
    ELSE IF is_dir(F, file_path)
    THEN [ok |-> FALSE, exc |-> "IsADirectoryError", size |-> 0]
    ELSE [ok |-> TRUE,
          text |-> universal_newlines(stat(F, file_path).content),
          encoding |-> IF stat(F, file_path).utf8 THEN "utf-8"
                       ELSE "latin-1"]

(***************************************************************************)
(* _get_python_files                                                       *)
(***************************************************************************)
_get_python_files(F, root) ==
    IF root = None THEN <<>>
    ELSE LET python_files ==
                 UNION {rglob(F, root, ext) : ext \in PYTHON_EXTENSIONS}
             filtered_files ==
                 {file_path \in python_files :
                     ~\E i \in 1..Len(file_path) :
                         file_path[i] \in EXCLUDE_DIRS}
         IN  sorted_paths(SetToSeq(filtered_files))

(***************************************************************************)
(* Results of the tool handlers: a single TextContent                      *)
(***************************************************************************)
ErrorText(msg) == [error |-> TRUE, text |-> msg, body |-> <<>>]

Text(payload) == [error |-> FALSE, text |-> "", body |-> payload]

NoRootSet == ErrorText("Error: No project root set")

(***************************************************************************)
(* _find_python_indicators and _set_project_root                           *)
(***************************************************************************)
_find_python_indicators(F, root) ==
    IF root = None THEN [raised |-> FALSE, indicators |-> <<>>]
    ELSE IF \/ \E file_name \in REQUIREMENTS_FILES :
                   denied(F, Append(root, file_name))
            \/ ~listable(F, root)
            \/ \E d \in DOMAIN F :
                   parent(d) = root /\ is_dir(F, d)
                                    /\ denied(F, Append(d, <<"_", "_", "i", "n", "i", "t", "_", "_", ".", "p", "y">>))
    THEN [raised |-> TRUE, exc |-> "PermissionError"]
    ELSE LET python_files ==
                 {q \in DOMAIN F : parent(q) = root
                                     /\ endswith(name(q), <<".", "p", "y">>)}
             found == {file_name \in REQUIREMENTS_FILES :
                          exists(F, Append(root, file_name))}
             packages ==
                 {d \in DOMAIN F :
                     /\ parent(d) = root
                     /\ is_dir(F, d)
                     /\ exists(F, Append(d, <<"_", "_", "i", "n", "i", "t", "_", "_", ".", "p", "y">>))}
         IN  [raised |-> FALSE,
              indicators |->
                  (IF python_files # {}
                   THEN <<[python_files |-> Cardinality(python_files)]>>
                   ELSE <<>>)
                  \o (IF found # {} THEN <<[found |-> found]>> ELSE <<>>)
                  \o (IF packages # {}
                      THEN <<[packages |-> Cardinality(packages)]>>
                      ELSE <<>>)]

\* the value of self.root_directory when _set_project_root(path) returns
root_after_set(F, root, path) ==
    IF exists(F, resolve(path)) /\ is_dir(F, resolve(path))
    THEN resolve(path)
    ELSE root

\* the text _set_project_root(path) returns
_set_project_root(F, path) ==
    LET root_path == resolve(path)
        python_indicators == _find_python_indicators(F, root_path)
    IN  IF ~exists(F, root_path)
        THEN ErrorText("Error: Path does not exist")
        ELSE IF ~is_dir(F, root_path)
        THEN ErrorText("Error: Path is not a directory")
        ELSE IF python_indicators.raised
        THEN ErrorText("Error setting project root")
        ELSE Text([root |-> root_path,
                   indicators |-> python_indicators.indicators])

(***************************************************************************)
(* _get_file_icon and _format_file_size                                    *)
(***************************************************************************)
CONFIG_EXTENSIONS ==
    {<<".", "t", "o", "m", "l">>, <<".", "c", "f", "g">>, <<".", "i", "n", "i">>, <<".", "y", "a", "m", "l">>, <<".", "y", "m", "l">>, <<".", "j", "s", "o", "n">>}

\* PurePath.suffix: from the last dot of the name, unless the dot leads or ends it
suffix(file_name) ==
    LET dots == {i \in 1..Len(file_name) : file_name[i] = "."}
        i == IF dots = {} THEN 0
             ELSE CHOOSE d \in dots : \A e \in dots : e <= d
    IN  IF 1 < i /\ i < Len(file_name)
        THEN SubSeq(file_name, i, Len(file_name))
        ELSE <<>>

_get_file_icon(file_path) ==
    IF lower(suffix(name(file_path))) \in PYTHON_EXTENSIONS THEN "python"
    ELSE IF lower(suffix(name(file_path))) \in CONFIG_EXTENSIONS THEN "config"
    ELSE IF lower(suffix(name(file_path))) \in DOC_EXTENSIONS THEN "doc"
    ELSE IF name(file_path) \in REQUIREMENTS_FILES THEN "package"
    ELSE "file"

\* round(n / d, 1) in tenths, ties to even, as "%.1f" prints an exact binary value
tenths(n, d) ==
    LET q == (10 * n) \div d
        r == (10 * n) % d
    IN  IF 2 * r > d \/ (2 * r = d /\ q % 2 = 1) THEN q + 1 ELSE q

_format_file_size(size_bytes) ==
    IF size_bytes < 1024 THEN [tenths |-> 10 * size_bytes, unit |-> "B"]
    ELSE IF size_bytes < 1024 * 1024
    THEN [tenths |-> tenths(size_bytes, 1024), unit |-> "KB"]
    ELSE IF size_bytes < 1024 * 1024 * 1024
    THEN [tenths |-> tenths(size_bytes, 1024 * 1024), unit |-> "MB"]
    ELSE [tenths |-> tenths(size_bytes, 1024 * 1024 * 1024), unit |-> "GB"]

(***************************************************************************)
(* _build_directory_tree and _explore_project_structure                    *)
(***************************************************************************)
\* tree_key comparing the names as they are written
tree_key_case_sensitive(F, x) ==
    Key(IF is_file(F, x) THEN 1 ELSE 0, <<name(x)>>)

\* key=lambda x: (x.is_file(), x.name.lower())
tree_key(F, x) == Key(IF is_file(F, x) THEN 1 ELSE 0, <<lower(name(x))>>)

RECURSIVE _build_directory_tree(_, _, _, _, _, _)
RECURSIVE tree_items(_, _, _, _, _, _)

\* _build_directory_tree with the depth test written  >  : the walk starts
\* even when no level is to be rendered
_build_directory_tree_one_level_more(F, order, path, max_depth, include_hidden, current_depth) ==
    IF current_depth > max_depth THEN <<>>
    ELSE IF ~listable(F, path)
    THEN <<[indent |-> current_depth, kind |-> "denied", item |-> path]>>
    ELSE LET entries == iterdir(F, order, path)
             items == sorted(entries, [i \in 1..Len(entries) |->
                                          tree_key(F, entries[i])])
         IN  tree_items(F, order, items, max_depth, include_hidden,
                        current_depth)

\* the lines of tree_lines, each with the entry it was emitted for
_build_directory_tree(F, order, path, max_depth, include_hidden, current_depth) ==
    IF current_depth >= max_depth THEN <<>>
    ELSE IF ~listable(F, path)
    THEN <<[indent |-> current_depth, kind |-> "denied", item |-> path]>>
    ELSE LET entries == iterdir(F, order, path)
             items == sorted(entries, [i \in 1..Len(entries) |->
                                          tree_key(F, entries[i])])
         IN  tree_items(F, order, items, max_depth, include_hidden,
                        current_depth)

\* tree_items with the PermissionError of a subdirectory caught around the
\* loop of its parent: the entries after that subdirectory are not rendered
tree_items_ending_at_denial(F, order, items, max_depth, include_hidden, current_depth) ==
    IF items = <<>> THEN <<>>
    ELSE LET item == Head(items)
             rest == tree_items(F, order, Tail(items), max_depth,
                                include_hidden, current_depth)
         IN  IF ~include_hidden /\ startswith(name(item), <<".">>) THEN rest
             ELSE IF is_dir(F, item) /\ name(item) \in EXCLUDE_DIRS THEN rest
             ELSE IF is_dir(F, item)
             THEN <<[indent |-> current_depth, kind |-> "dir",
                     item |-> item]>>
                  \o (IF current_depth < max_depth - 1
                      THEN _build_directory_tree(F, order, item, max_depth,
                                                 include_hidden,
                                                 current_depth + 1)
                      ELSE <<>>)
                  \o (IF current_depth < max_depth - 1 /\ ~listable(F, item)
                      THEN <<>> ELSE rest)
             ELSE <<[indent |-> current_depth, kind |-> "file",
                     item |-> item, icon |-> _get_file_icon(item),
                     size |-> _format_file_size(stat(F, item).size)]>>
                  \o rest

\* the body of "for item in items"
tree_items(F, order, items, max_depth, include_hidden, current_depth) ==
    IF items = <<>> THEN <<>>
    ELSE LET item == Head(items)
             rest == tree_items(F, order, Tail(items), max_depth,
                                include_hidden, current_depth)
         IN  IF ~include_hidden /\ startswith(name(item), <<".">>) THEN rest
             ELSE IF is_dir(F, item) /\ name(item) \in EXCLUDE_DIRS THEN rest
             ELSE IF is_dir(F, item)
             THEN <<[indent |-> current_depth, kind |-> "dir",
                     item |-> item]>>
                  \o (IF current_depth < max_depth - 1
                      THEN _build_directory_tree(F, order, item, max_depth,
                                                 include_hidden,
                                                 current_depth + 1)
                      ELSE <<>>)
                  \o rest
             ELSE <<[indent |-> current_depth, kind |-> "file",
                     item |-> item, icon |-> _get_file_icon(item),
                     size |-> _format_file_size(stat(F, item).size)]>>
                  \o rest

_explore_project_structure(F, order, root, max_depth, include_hidden) ==
    IF root = None THEN NoRootSet
    ELSE Text(_build_directory_tree(F, order, root, max_depth,
                                    include_hidden, 0))

(***************************************************************************)
(* _read_file                                                              *)
(***************************************************************************)
\* file_path is [absolute |-> BOOLEAN, parts |-> names]
_read_file(F, root, file_path) ==
    IF root = None THEN NoRootSet
    ELSE LET path == IF file_path.absolute THEN file_path.parts
                     ELSE root \o file_path.parts
             content == _read_file_content(F, path)
         IN  IF ~content.ok THEN ErrorText("Error reading file")
             ELSE IF ~(Len(path) >= Len(root)
                         /\ SubSeq(path, 1, Len(root)) = root)
             THEN ErrorText("Error reading file")
             ELSE Text([file |-> relative_to(path, root),
                        content |-> content.text])

(***************************************************************************)
(* Manifest parsers                                                        *)
(***************************************************************************)
Raised(e) == [raised |-> TRUE, exc |-> e, deps |-> <<>>]

Parsed(d) == [raised |-> FALSE, exc |-> "", deps |-> d]

\* the loop of _parse_requirements_txt over content.split('\n')
RECURSIVE requirements_lines(_)
requirements_lines(lines) ==
    IF lines = <<>> THEN <<>>
    ELSE LET line == strip(Head(lines))
         IN  (IF line # <<>> /\ ~startswith(line, <<"#">>)
                             /\ ~startswith(line, <<"-">>)
              THEN <<split_ws(line)[1]>>
              ELSE <<>>)
             \o requirements_lines(Tail(lines))

_parse_requirements_txt(F, file_path) ==
    LET content == _read_file_content(F, file_path)
    IN  IF ~content.ok THEN Raised(content.exc)
        ELSE Parsed(requirements_lines(split(content.text, <<"\n">>)))

\* pyproject_lines without the branch that leaves the section: once inside,
\* every later assignment is taken
RECURSIVE pyproject_lines_never_leaving(_, _)
pyproject_lines_never_leaving(lines, in_deps_section) ==
    IF lines = <<>> THEN <<>>
    ELSE LET line == strip(Head(lines))
             dep_name ==
                 strip_chars(strip(split(line, <<"=">>)[1]), {"\"", "'"})
         IN  IF \/ startswith(line, <<"[", "t", "o", "o", "l", ".", "p", "o", "e", "t", "r", "y", ".", "d", "e", "p", "e", "n", "d", "e", "n", "c", "i", "e", "s", "]">>)
                \/ startswith(line, <<"d", "e", "p", "e", "n", "d", "e", "n", "c", "i", "e", "s", " ", "=", " ", "[">>)
             THEN pyproject_lines_never_leaving(Tail(lines), TRUE)
             ELSE IF in_deps_section /\ contains(line, <<"=">>)
             THEN (IF dep_name # <<"p", "y", "t", "h", "o", "n">> THEN <<dep_name>> ELSE <<>>)
                  \o pyproject_lines_never_leaving(Tail(lines),
                                                   in_deps_section)
             ELSE pyproject_lines_never_leaving(Tail(lines), in_deps_section)

\* the loop of _parse_pyproject_toml, entered with in_deps_section
RECURSIVE pyproject_lines(_, _)
pyproject_lines(lines, in_deps_section) ==
    IF lines = <<>> THEN <<>>
    ELSE LET line == strip(Head(lines))
             dep_name ==
                 strip_chars(strip(split(line, <<"=">>)[1]), {"\"", "'"})
         IN  IF \/ startswith(line, <<"[", "t", "o", "o", "l", ".", "p", "o", "e", "t", "r", "y", ".", "d", "e", "p", "e", "n", "d", "e", "n", "c", "i", "e", "s", "]">>)
                \/ startswith(line, <<"d", "e", "p", "e", "n", "d", "e", "n", "c", "i", "e", "s", " ", "=", " ", "[">>)
             THEN pyproject_lines(Tail(lines), TRUE)
             ELSE IF startswith(line, <<"[">>) /\ in_deps_section
             THEN pyproject_lines(Tail(lines), FALSE)
             ELSE IF in_deps_section /\ contains(line, <<"=">>)
             THEN (IF dep_name # <<"p", "y", "t", "h", "o", "n">> THEN <<dep_name>> ELSE <<>>)
                  \o pyproject_lines(Tail(lines), in_deps_section)
             ELSE pyproject_lines(Tail(lines), in_deps_section)

_parse_pyproject_toml(F, file_path) ==
    LET content == _read_file_content(F, file_path)
    IN  IF ~content.ok THEN Raised(content.exc)
        ELSE Parsed(pyproject_lines(split(content.text, <<"\n">>), FALSE))

\* the end of the run of whitespace that starts at index i
RECURSIVE skip_space(_, _)
skip_space(s, i) ==
    IF i <= Len(s) /\ isspace(s[i]) THEN skip_space(s, i + 1) ELSE i

\* re.match of  keyword\s*=\s*\[(.*?)\]  at index i, with re.DOTALL
match_list_at(s, i, keyword) ==
    LET a == i + Len(keyword)
        b == skip_space(s, a)
        c == skip_space(s, b + 1)
        closes == {k \in (c + 1)..Len(s) : s[k] = "]"}
        close == CHOOSE k \in closes : \A j \in closes : k <= j
    IN  IF /\ slice(s, i, a - 1) = keyword
           /\ b <= Len(s) /\ s[b] = "="
           /\ c <= Len(s) /\ s[c] = "["
           /\ closes # {}
        THEN [matched |-> TRUE, group |-> SubSeq(s, c + 1, close - 1),
              end |-> close + 1]
        ELSE [matched |-> FALSE, group |-> <<>>, end |-> i + 1]

\* re.findall(keyword\s*=\s*\[(.*?)\], s, re.DOTALL), scanning from index i
RECURSIVE findall_lists(_, _, _)
findall_lists(s, i, keyword) ==
    IF i > Len(s) THEN <<>>
    ELSE LET m == match_list_at(s, i, keyword)
         IN  (IF m.matched THEN <<m.group>> ELSE <<>>)
             \o findall_lists(s, m.end, keyword)

\* re.findall(r'["\']([^"\']+)["\']', s), scanning from index i
RECURSIVE findall_quoted(_, _)
findall_quoted(s, i) ==
    IF i > Len(s) THEN <<>>
    ELSE LET quotes == {k \in (i + 1)..Len(s) : s[k] \in {"\"", "'"}}
             close == CHOOSE k \in quotes : \A j \in quotes : k <= j
         IN  IF s[i] \in {"\"", "'"} /\ quotes # {} /\ close > i + 1
             THEN <<SubSeq(s, i + 1, close - 1)>>
                  \o findall_quoted(s, close + 1)
             ELSE findall_quoted(s, i + 1)

\* pkg.split('>=')[0].split('==')[0].split('<')[0].strip()
package_name(pkg) ==
    strip(split(split(split(pkg, <<">", "=">>)[1], <<"=", "=">>)[1], <<"<">>)[1])

RECURSIVE setup_matches(_)
setup_matches(matches) ==
    IF matches = <<>> THEN <<>>
    ELSE LET package_strings == findall_quoted(Head(matches), 1)
         IN  [k \in 1..Len(package_strings) |->
                 package_name(package_strings[k])]
             \o setup_matches(Tail(matches))

_parse_setup_file(F, file_path) ==
    LET content == _read_file_content(F, file_path)
    IN  IF ~content.ok THEN Raised(content.exc)
        ELSE Parsed(
                 setup_matches(findall_lists(content.text, 1,
                                             <<"i", "n", "s", "t", "a", "l", "l", "_", "r", "e", "q", "u", "i", "r", "e", "s">>))
                 \o setup_matches(findall_lists(content.text, 1,
                                                <<"r", "e", "q", "u", "i", "r", "e", "s">>)))

\* what the try block of _analyze_requirement_files does for req_file
parse_manifest(F, root, req_file) ==
    IF endswith(req_file, <<".", "t", "x", "t">>)
    THEN _parse_requirements_txt(F, Append(root, req_file))
    ELSE IF req_file = <<"p", "y", "p", "r", "o", "j", "e", "c", "t", ".", "t", "o", "m", "l">>
    THEN _parse_pyproject_toml(F, Append(root, req_file))
    ELSE IF req_file \in {<<"s", "e", "t", "u", "p", ".", "p", "y">>, <<"s", "e", "t", "u", "p", ".", "c", "f", "g">>}
    THEN _parse_setup_file(F, Append(root, req_file))
    ELSE Parsed(<<>>)

\* the dict results: manifest name -> deps, for a root whose entries can be
\* examined
_analyze_requirement_files(F, root) ==
    LET kept == {req_file \in REQUIREMENTS_FILES :
                    /\ exists(F, Append(root, req_file))
                    /\ ~parse_manifest(F, root, req_file).raised
                    /\ parse_manifest(F, root, req_file).deps # <<>>}
    IN  [req_file \in kept |-> parse_manifest(F, root, req_file).deps]

(***************************************************************************)
(* _analyze_imports                                                        *)
(***************************************************************************)
\* the end of the run of characters [^\s,] that starts at index i
RECURSIVE skip_module(_, _)
skip_module(s, i) ==
    IF i <= Len(s) /\ ~isspace(s[i]) /\ s[i] # ","
    THEN skip_module(s, i + 1) ELSE i

NoMatch == [matched |-> FALSE, group |-> <<>>]

\* re.match(r'^import\s+([^\s,]+)', line)
match_import(line) ==
    LET a == Len(<<"i", "m", "p", "o", "r", "t">>) + 1
        b == skip_space(line, a)
        c == skip_module(line, b)
    IN  IF startswith(line, <<"i", "m", "p", "o", "r", "t">>) /\ b > a /\ c > b
        THEN [matched |-> TRUE, group |-> SubSeq(line, b, c - 1)]
        ELSE NoMatch

\* re.match(r'^from\s+([^\s,]+)\s+import', line)
match_from(line) ==
    LET a == Len(<<"f", "r", "o", "m">>) + 1
        b == skip_space(line, a)
        c == skip_module(line, b)
        d == skip_space(line, c)
    IN  IF /\ startswith(line, <<"f", "r", "o", "m">>) /\ b > a /\ c > b /\ d > c
           /\ slice(line, d, d + Len(<<"i", "m", "p", "o", "r", "t">>) - 1) = <<"i", "m", "p", "o", "r", "t">>
        THEN [matched |-> TRUE, group |-> SubSeq(line, b, c - 1)]
        ELSE NoMatch

\* import_counts[module] = import_counts.get(module, 0) + 1, on the dict
\* kept as its items in insertion order
count_module(import_counts, module) ==
    IF \E k \in 1..Len(import_counts) : import_counts[k].module = module
    THEN [k \in 1..Len(import_counts) |->
             IF import_counts[k].module = module
             THEN [import_counts[k] EXCEPT !.count = @ + 1]
             ELSE import_counts[k]]
    ELSE Append(import_counts, [module |-> module, count |-> 1])

\* count_line with the first pattern alone: "from ... import" is not counted
count_line_first_pattern_only(import_counts, line) ==
    LET m1 == match_import(line)
    IN  IF m1.matched
        THEN count_module(import_counts, split(m1.group, <<".">>)[1])
        ELSE import_counts

\* for pattern in import_patterns, on one stripped line
count_line(import_counts, line) ==
    LET m1 == match_import(line)
        m2 == match_from(line)
        c1 == IF m1.matched
              THEN count_module(import_counts, split(m1.group, <<".">>)[1])
              ELSE import_counts
    IN  IF m2.matched THEN count_module(c1, split(m2.group, <<".">>)[1])
        ELSE c1

\* for line in content.split('\n')
RECURSIVE count_lines(_, _)
count_lines(import_counts, lines) ==
    IF lines = <<>> THEN import_counts
    ELSE count_lines(count_line(import_counts, strip(Head(lines))),
                     Tail(lines))

RECURSIVE count_files(_, _, _)

\* count_files with the try/except around the whole loop: the first file
\* that cannot be read ends the tally
count_files_ending_at_failure(F, import_counts, python_files) ==
    IF python_files = <<>> THEN import_counts
    ELSE LET content == _read_file_content(F, Head(python_files))
         IN  IF ~content.ok THEN import_counts
             ELSE count_files(F,
                              count_lines(import_counts,
                                          split(content.text, <<"\n">>)),
                              Tail(python_files))

\* for file_path in python_files, with the try/except around each file
count_files(F, import_counts, python_files) ==
    IF python_files = <<>> THEN import_counts
    ELSE LET content == _read_file_content(F, Head(python_files))
         IN  count_files(F,
                         IF content.ok
                         THEN count_lines(import_counts,
                                          split(content.text, <<"\n">>))
                         ELSE import_counts,
                         Tail(python_files))

_analyze_imports(F, root) == count_files(F, <<>>, _get_python_files(F, root))

(***************************************************************************)
(* _find_python_files, _analyze_dependencies                               *)
(***************************************************************************)
\* fnmatch.fnmatch(file_name, pattern) for patterns of literals, * and ?
RECURSIVE fnmatch(_, _)
fnmatch(file_name, pattern) ==
    IF pattern = <<>> THEN file_name = <<>>
    ELSE IF Head(pattern) = "*"
    THEN \/ fnmatch(file_name, Tail(pattern))
         \/ file_name # <<>> /\ fnmatch(Tail(file_name), pattern)
    ELSE /\ file_name # <<>>
         /\ Head(pattern) = "?" \/ Head(pattern) = Head(file_name)
         /\ fnmatch(Tail(file_name), Tail(pattern))

\* [f for f in python_files if fnmatch.fnmatch(f.name, pattern)]
filter_pattern(python_files, pattern) ==
    IF pattern = None \/ pattern = <<>> THEN python_files
    ELSE SelectSeq(python_files, LAMBDA f : fnmatch(name(f), pattern))

_find_python_files(F, root, pattern, include_tests) ==
    IF root = None THEN NoRootSet
    ELSE LET matching == filter_pattern(_get_python_files(F, root), pattern)
             python_files ==
                 IF include_tests THEN matching
                 ELSE SelectSeq(matching,
                                LAMBDA f : ~\E i \in 1..Len(f) :
                                               startswith(f[i], <<"t", "e", "s", "t">>))
         IN  IF python_files = <<>>
             THEN [error |-> FALSE,
                   text |-> "No Python files found matching criteria",
                   body |-> <<>>]
             ELSE Text([k \in 1..Len(python_files) |->
                           [rel_path |-> relative_to(python_files[k], root),
                            size |-> _format_file_size(
                                         stat(F, python_files[k]).size)]])

Min(a, b) == IF a < b THEN a ELSE b

Max(a, b) == IF a < b THEN b ELSE a

DEPS_SHOWN == 10

IMPORTS_SHOWN == 20

_analyze_dependencies(F, root, include_imports) ==
    IF root = None THEN NoRootSet
    ELSE IF \E req_file \in REQUIREMENTS_FILES :
                denied(F, Append(root, req_file))
    THEN ErrorText("Error analyzing dependencies")
    ELSE LET deps_from_files == _analyze_requirement_files(F, root)
             imports == _analyze_imports(F, root)
             sorted_imports ==
                 sorted(imports, [i \in 1..Len(imports) |->
                                     Key(0 - imports[i].count, <<>>)])
         IN  Text([deps |->
                       [file_name \in DOMAIN deps_from_files |->
                           [shown |->
                                SubSeq(deps_from_files[file_name], 1,
                                       Min(DEPS_SHOWN,
                                           Len(deps_from_files[file_name]))),
                            more |->
                                Max(0, Len(deps_from_files[file_name])
                                           - DEPS_SHOWN)]],
                   imports |->
                       IF include_imports
                       THEN SubSeq(sorted_imports, 1,
                                   Min(IMPORTS_SHOWN, Len(sorted_imports)))
                       ELSE <<>>])

(***************************************************************************)
(* _search_code                                                            *)
(***************************************************************************)
MATCHES_SHOWN == 50

\* search_lines with both sides always lower-cased
search_lines_ignoring_case(rel_path, lines, query, case_sensitive) ==
    LET hits == SelectSeq(<<>> \o [line_num \in 1..Len(lines) |-> line_num],
                          LAMBDA line_num :
                              contains(lower(lines[line_num]), lower(query)))
    IN  <<>> \o [k \in 1..Len(hits) |->
                    [file |-> rel_path, line |-> hits[k],
                     content |-> strip(lines[hits[k]])]]

\* for line_num, line in enumerate(lines, 1): the matches of one file
search_lines(rel_path, lines, query, case_sensitive) ==
    LET search_query == IF case_sensitive THEN query ELSE lower(query)
        search_line(line) == IF case_sensitive THEN line ELSE lower(line)
        hits == SelectSeq(<<>> \o [line_num \in 1..Len(lines) |-> line_num],
                          LAMBDA line_num :
                              contains(search_line(lines[line_num]),
                                       search_query))
    IN  <<>> \o [k \in 1..Len(hits) |->
                    [file |-> rel_path, line |-> hits[k],
                     content |-> strip(lines[hits[k]])]]

\* for file_path in python_files, with the try/except around each file
RECURSIVE search_files(_, _, _, _, _)
search_files(F, root, python_files, query, case_sensitive) ==
    IF python_files = <<>> THEN <<>>
    ELSE LET content == _read_file_content(F, Head(python_files))
         IN  (IF content.ok
              THEN search_lines(relative_to(Head(python_files), root),
                                split(content.text, <<"\n">>), query,
                                case_sensitive)
              ELSE <<>>)
             \o search_files(F, root, Tail(python_files), query,
                             case_sensitive)

\* the list matches that _search_code builds
search_matches(F, root, query, case_sensitive, file_pattern) ==
    search_files(F, root,
                 filter_pattern(_get_python_files(F, root), file_pattern),
                 query, case_sensitive)

\* _search_code reporting the number of matches shown as the number found
_search_code_counting_shown(F, root, query, case_sensitive, file_pattern) ==
    IF root = None THEN NoRootSet
    ELSE LET matches ==
                 search_matches(F, root, query, case_sensitive, file_pattern)
         IN  IF matches = <<>>
             THEN [error |-> FALSE, text |-> "No matches found",
                   body |-> <<>>]
             ELSE Text([found |-> Min(MATCHES_SHOWN, Len(matches)),
                        shown |-> SubSeq(matches, 1,
                                         Min(MATCHES_SHOWN, Len(matches))),
                        more |-> Max(0, Len(matches) - MATCHES_SHOWN)])

_search_code(F, root, query, case_sensitive, file_pattern) ==
    IF root = None THEN NoRootSet
    ELSE LET matches ==
                 search_matches(F, root, query, case_sensitive, file_pattern)
         IN  IF matches = <<>>
             THEN [error |-> FALSE, text |-> "No matches found",
                   body |-> <<>>]
             ELSE Text([found |-> Len(matches),
                        shown |-> SubSeq(matches, 1,
                                         Min(MATCHES_SHOWN, Len(matches))),
                        more |-> Max(0, Len(matches) - MATCHES_SHOWN)])

(***************************************************************************)
(* _generate_project_overview and _get_project_info                        *)
(***************************************************************************)
PACKAGES_SHOWN == 5

RECURSIVE SumLen(_, _)
SumLen(f, keys) ==
    IF keys = {} THEN 0
    ELSE LET k == CHOOSE x \in keys : TRUE
         IN  Len(f[k]) + SumLen(f, keys \ {k})

\* the overview text: the values it prints, and in lines the kind of each
\* line it is made of, in order
_generate_project_overview(F, order, root) ==
    LET python_files == _get_python_files(F, root)
        packages ==
            SelectSeq(iterdir(F, order, root),
                      LAMBDA d : is_dir(F, d)
                                   /\ exists(F, Append(d, <<"_", "_", "i", "n", "i", "t", "_", "_", ".", "p", "y">>)))
        config_files == {file_name \in REQUIREMENTS_FILES :
                            exists(F, Append(root, file_name))}
        doc_files == {q \in DOMAIN F :
                         /\ parent(q) = root
                         /\ \E ext \in DOC_EXTENSIONS : endswith(name(q), ext)}
        deps_info == _analyze_requirement_files(F, root)
    IN  [root |-> root,
         python_files |-> Len(python_files),
         packages |-> [found |-> Len(packages),
                       shown |-> SubSeq(packages, 1,
                                        Min(PACKAGES_SHOWN, Len(packages))),
                       more |-> Max(0, Len(packages) - PACKAGES_SHOWN)],
         config_files |-> config_files,
         doc_files |-> Cardinality(doc_files),
         dependencies |-> IF DOMAIN deps_info = {} THEN <<>>
                          ELSE <<SumLen(deps_info, DOMAIN deps_info)>>,
         lines |-> <<"title", "rule", "project_root", "python_files">>
                   \o (IF packages # <<>> THEN <<"python_packages">> ELSE <<>>)
                   \o (IF config_files # {} THEN <<"configuration_files">>
                       ELSE <<>>)
                   \o (IF doc_files # {} THEN <<"documentation">> ELSE <<>>)
                   \o (IF DOMAIN deps_info # {} THEN <<"dependencies">>
                       ELSE <<>>)
                   \o <<"rule", "use_other_tools">>]

_get_project_info(F, order, root) ==
    IF root = None THEN NoRootSet
    ELSE IF \/ ~listable(F, root)
            \/ \E d \in DOMAIN F :
                   parent(d) = root /\ is_dir(F, d)
                                    /\ denied(F, Append(d, <<"_", "_", "i", "n", "i", "t", "_", "_", ".", "p", "y">>))
    THEN ErrorText("Error getting project info")
    ELSE Text(_generate_project_overview(F, order, root))

(***************************************************************************)
(* The session: a root is configured, then the tools are called            *)
(***************************************************************************)
srv == <<"s", "r", "v">>

proj == <<srv, <<"p", "r", "o", "j">>>>

SessionTree ==
    (<<srv>> :> Dir(TRUE))
    @@ (proj :> Dir(TRUE))
    @@ (Append(proj, <<"m", "a", "i", "n", ".", "p", "y">>) :> File(<<"i", "m", "p", "o", "r", "t", " ", "o", "s", "\n", "x", " ", "=", " ", "1", " ", " ", "#", " ", "T", "O", "D", "O", "\n">>))
    @@ (Append(proj, <<"r", "e", "q", "u", "i", "r", "e", "m", "e", "n", "t", "s", ".", "t", "x", "t">>) :> File(<<"f", "l", "a", "s", "k", "\n">>))
    @@ (Append(proj, <<"p", "k", "g">>) :> Dir(TRUE))
    @@ (proj \o <<<<"p", "k", "g">>, <<"_", "_", "i", "n", "i", "t", "_", "_", ".", "p", "y">>>> :> File(<<>>))
    @@ (<<srv, <<"l", "o", "c", "k", "e", "d">>>> :> Dir(FALSE))
    @@ (<<srv, <<"n", "o", "t", "e", "s", ".", "t", "x", "t">>>> :> File(<<"h", "e", "l", "l", "o", "\n">>))
    @@ (<<srv, <<"d", "o", "c", "s">>>> :> Dir(TRUE))
    @@ (<<srv, <<"d", "o", "c", "s">>, <<"R", "E", "A", "D", "M", "E", ".", "m", "d">>>> :> File(<<"#", " ", "n", "o", "t", "e", "s", "\n">>))

RootInputs ==
    {proj, <<srv, <<"l", "o", "c", "k", "e", "d">>>>, <<srv, <<"n", "o", "t", "e", "s", ".", "t", "x", "t">>>>, <<srv, <<"m", "i", "s", "s", "i", "n", "g">>>>,
     <<srv, <<"p", "r", "o", "j">>, <<".", ".">>, <<"l", "o", "c", "k", "e", "d">>>>, <<srv>>,
     <<srv, <<"d", "o", "c", "s">>>>}

FileInputs ==
    {[absolute |-> FALSE, parts |-> <<<<"m", "a", "i", "n", ".", "p", "y">>>>],
     [absolute |-> FALSE, parts |-> <<<<"n", "o", "t", "h", "i", "n", "g", ".", "p", "y">>>>],
     [absolute |-> FALSE, parts |-> <<<<".", ".">>, <<"n", "o", "t", "e", "s", ".", "t", "x", "t">>>>],
     [absolute |-> TRUE, parts |-> <<srv, <<"n", "o", "t", "e", "s", ".", "t", "x", "t">>>>]}

MaxDepth == 2

Init ==
    /\ root_directory = None
    /\ fs = SessionTree
    /\ scandir_order \in {"asc", "desc"}
    /\ call = [op |-> "__init__", args |-> <<>>]
    /\ result = Text(<<>>)
    /\ fs_access = FALSE
    /\ set_reported = FALSE
    /\ root_before = None

SetProjectRoot(path) ==
    /\ root_directory' = root_after_set(fs, root_directory, path)
    /\ result' = _set_project_root(fs, path)
    /\ call' = [op |-> "set_project_root", args |-> <<path>>]
    /\ fs_access' = TRUE
    /\ set_reported' = (set_reported \/ ~_set_project_root(fs, path).error)
    /\ root_before' = root_directory
    /\ UNCHANGED <<fs, scandir_order>>

ExploreProjectStructure(max_depth, include_hidden) ==
    /\ result' = _explore_project_structure(fs, scandir_order, root_directory,
                                            max_depth, include_hidden)
    /\ call' = [op |-> "explore_project_structure",
                args |-> <<max_depth, include_hidden>>]
    /\ fs_access' = (root_directory # None)
    /\ UNCHANGED <<root_directory, fs, scandir_order, set_reported,
                 root_before>>

ReadFile(file_path) ==
    /\ result' = _read_file(fs, root_directory, file_path)
    /\ call' = [op |-> "read_file", args |-> <<file_path>>]
    /\ fs_access' = (root_directory # None)
    /\ UNCHANGED <<root_directory, fs, scandir_order, set_reported,
                 root_before>>

FindPythonFiles(pattern, include_tests) ==
    /\ result' = _find_python_files(fs, root_directory, pattern,
                                    include_tests)
    /\ call' = [op |-> "find_python_files",
                args |-> <<pattern, include_tests>>]
    /\ fs_access' = (root_directory # None)
    /\ UNCHANGED <<root_directory, fs, scandir_order, set_reported,
                 root_before>>

AnalyzeDependencies(include_imports) ==
    /\ result' = _analyze_dependencies(fs, root_directory, include_imports)
    /\ call' = [op |-> "analyze_dependencies", args |-> <<include_imports>>]
    /\ fs_access' = (root_directory # None)
    /\ UNCHANGED <<root_directory, fs, scandir_order, set_reported,
                 root_before>>

SearchCode(query, case_sensitive, file_pattern) ==
    /\ result' = _search_code(fs, root_directory, query, case_sensitive,
                              file_pattern)
    /\ call' = [op |-> "search_code",
                args |-> <<query, case_sensitive, file_pattern>>]
    /\ fs_access' = (root_directory # None)
    /\ UNCHANGED <<root_directory, fs, scandir_order, set_reported,
                 root_before>>

GetProjectInfo ==
    /\ result' = _get_project_info(fs, scandir_order, root_directory)
    /\ call' = [op |-> "get_project_info", args |-> <<>>]
    /\ fs_access' = (root_directory # None)
    /\ UNCHANGED <<root_directory, fs, scandir_order, set_reported,
                 root_before>>

Next ==
    \/ \E path \in RootInputs : SetProjectRoot(path)
    \/ \E max_depth \in 0..MaxDepth, include_hidden \in BOOLEAN :
           ExploreProjectStructure(max_depth, include_hidden)
    \/ \E file_path \in FileInputs : ReadFile(file_path)
    \/ \E pattern \in {None, <<"m", "*", ".", "p", "y">>}, include_tests \in BOOLEAN :
           FindPythonFiles(pattern, include_tests)
    \/ \E include_imports \in BOOLEAN : AnalyzeDependencies(include_imports)
    \/ \E query \in {<<"T", "O", "D", "O">>, <<"o", "s">>}, case_sensitive \in BOOLEAN :
           SearchCode(query, case_sensitive, None)
    \/ GetProjectInfo

Spec == Init /\ [][Next]_vars


(***************************************************************************)
(* Reading one file: sizes around the cap                                  *)
(***************************************************************************)
MaxOver == 3

ReaderSizes ==
    0..MaxOver \cup (MAX_FILE_SIZE - MaxOver)..(MAX_FILE_SIZE + MaxOver)

data_file == Append(proj, <<"d", "a", "t", "a", ".", "t", "x", "t">>)

ReaderTrees ==
    {(<<srv>> :> Dir(TRUE)) @@ (proj :> Dir(TRUE))}
    \cup {(<<srv>> :> Dir(TRUE)) @@ (proj :> Dir(TRUE))
            @@ (data_file :>
                    SizedFile(bytes, slice(<<"a", "b", "c">>, 1, bytes), decodes)) :
            bytes \in ReaderSizes, decodes \in BOOLEAN}

InitReader ==
    /\ root_directory = proj
    /\ fs \in ReaderTrees
    /\ scandir_order = "asc"
    /\ call = [op |-> "__init__", args |-> <<>>]
    /\ result = Text(<<>>)
    /\ fs_access = FALSE
    /\ set_reported = TRUE
    /\ root_before = root_directory

ReadFileContent(file_path) ==
    /\ result' = _read_file_content(fs, file_path)
    /\ call' = [op |-> "_read_file_content", args |-> <<file_path>>]
    /\ fs_access' = TRUE
    /\ UNCHANGED <<root_directory, fs, scandir_order, set_reported,
                 root_before>>

ReaderInputs ==
    {[absolute |-> FALSE, parts |-> <<<<"d", "a", "t", "a", ".", "t", "x", "t">>>>],
     [absolute |-> TRUE, parts |-> data_file],
     [absolute |-> FALSE, parts |-> <<<<"o", "t", "h", "e", "r", ".", "t", "x", "t">>>>]}

NextReader ==
    \/ \E file_path \in {data_file, Append(proj, <<"o", "t", "h", "e", "r", ".", "t", "x", "t">>)} :
           ReadFileContent(file_path)
    \/ \E file_path \in ReaderInputs : ReadFile(file_path)

SpecReader == InitReader /\ [][NextReader]_vars

(***************************************************************************)
(* Walking and indexing a tree                                             *)
(***************************************************************************)
IndexRoots == {proj, <<srv, <<"b", "u", "i", "l", "d">>, <<"p", "r", "o", "j">>>>}

\* the files tried below a root that itself lies under a directory named
\* like an excluded one
FewFiles == {<<<<"m", "a", "i", "n", ".", "p", "y">>>>, <<<<"p", "k", "g">>, <<"_", "_", "i", "n", "i", "t", "_", "_", ".", "p", "y">>>>}

IndexFiles ==
    {<<<<"m", "a", "i", "n", ".", "p", "y">>>>, <<<<"R", "E", "A", "D", "M", "E", ".", "m", "d">>>>, <<<<"p", "k", "g">>, <<"_", "_", "i", "n", "i", "t", "_", "_", ".", "p", "y">>>>,
     <<<<"p", "k", "g">>, <<"s", "u", "b">>, <<"d", "e", "e", "p", ".", "p", "y", "i">>>>,
     <<<<"p", "k", "g">>, <<"s", "u", "b">>, <<"m", "o", "r", "e">>, <<"x", ".", "p", "y", "x">>>>,
     <<<<"b", "u", "i", "l", "d">>, <<"g", "e", "n", ".", "p", "y">>>>, <<<<".", "h", "i", "d", "d", "e", "n", ".", "p", "y">>>>,
     <<<<"l", "o", "c", "k", "e", "d">>, <<"i", "n", ".", "p", "y">>>>}

IndexDirs == {<<<<"e", "m", "p", "t", "y">>>>}

\* the tree with the given files and directories below root; a directory
\* named "locked" cannot be listed
TreeOf(root, files, dirs) ==
    LET above == {SubSeq(root, 1, k) : k \in 1..Len(root)}
        all == above \cup UNION {{root \o SubSeq(l, 1, k) : k \in 1..Len(l)} :
                                    l \in files \cup dirs}
    IN  [p \in all |->
            IF \E l \in files : p = root \o l THEN File(<<"x", " ", "=", " ", "1", "\n">>)
            ELSE Dir(name(p) # <<"l", "o", "c", "k", "e", "d">>)]

InitIndex ==
    /\ root_directory \in IndexRoots
    /\ \E files \in SUBSET IndexFiles, dirs \in SUBSET IndexDirs :
           /\ root_directory # proj => (files \subseteq FewFiles /\ dirs = {})
           /\ fs = TreeOf(root_directory, files, dirs)
    /\ scandir_order \in {"asc", "desc"}
    /\ call = [op |-> "__init__", args |-> <<>>]
    /\ result = Text(<<>>)
    /\ fs_access = FALSE
    /\ set_reported = TRUE
    /\ root_before = root_directory

GetPythonFiles ==
    /\ result' = _get_python_files(fs, root_directory)
    /\ call' = [op |-> "_get_python_files", args |-> <<>>]
    /\ fs_access' = TRUE
    /\ UNCHANGED <<root_directory, fs, scandir_order, set_reported,
                 root_before>>

MaxTreeDepth == 3

BuildDirectoryTree(max_depth, include_hidden) ==
    /\ result' = _build_directory_tree(fs, scandir_order, root_directory,
                                       max_depth, include_hidden, 0)
    /\ call' = [op |-> "_build_directory_tree",
                args |-> <<max_depth, include_hidden>>]
    /\ fs_access' = (max_depth > 0)
    /\ UNCHANGED <<root_directory, fs, scandir_order, set_reported,
                 root_before>>

NextIndex ==
    \/ GetPythonFiles
    \/ \E max_depth \in 0..MaxTreeDepth, include_hidden \in BOOLEAN :
           BuildDirectoryTree(max_depth, include_hidden)

SpecIndex == InitIndex /\ [][NextIndex]_vars

(***************************************************************************)
(* Manifests at the root                                                   *)
(***************************************************************************)
\* all sequences over S of length at most n
SeqsUpTo(S, n) == UNION {[1..k -> S] : k \in 0..n}

MaxReqLines == 3

ReqLines ==
    {<<"#", " ", "c", "o", "m", "m", "e", "n", "t">>, <<"-", "r", " ", "o", "t", "h", "e", "r", ".", "t", "x", "t">>, <<"r", "e", "q", "u", "e", "s", "t", "s", ">", "=", "2", ".", "0">>, <<>>, <<"f", "l", "a", "s", "k">>,
     <<" ", " ", "n", "u", "m", "p", "y", "=", "=", "1", ".", "0", " ", " ", "#", " ", "p", "i", "n", "n", "e", "d">>}

Under(root, entries) ==
    [p \in {SubSeq(root, 1, k) : k \in 1..Len(root)} |-> Dir(TRUE)] @@ entries

ReqTrees ==
    {Under(proj, Append(proj, <<"r", "e", "q", "u", "i", "r", "e", "m", "e", "n", "t", "s", ".", "t", "x", "t">>) :> File(join_lines(lines))) :
        lines \in SeqsUpTo(ReqLines, MaxReqLines)}

MaxTomlLines == 4

TomlLines ==
    {<<"[", "t", "o", "o", "l", ".", "p", "o", "e", "t", "r", "y", ".", "d", "e", "p", "e", "n", "d", "e", "n", "c", "i", "e", "s", "]">>, <<"d", "e", "p", "e", "n", "d", "e", "n", "c", "i", "e", "s", " ", "=", " ", "[">>, <<"[", "t", "o", "o", "l", ".", "b", "l", "a", "c", "k", "]">>,
     <<"p", "y", "t", "h", "o", "n", " ", "=", " ", "\"", "^", "3", ".", "8", "\"">>, <<" ", "\"", "r", "e", "q", "u", "e", "s", "t", "s", "\"", " ", "=", " ", "\"", "^", "2", "\"">>, <<"f", "l", "a", "s", "k">>}

TomlTrees ==
    {Under(proj, Append(proj, <<"p", "y", "p", "r", "o", "j", "e", "c", "t", ".", "t", "o", "m", "l">>) :> File(join_lines(lines))) :
        lines \in SeqsUpTo(TomlLines, MaxTomlLines)}

TooLarge(text) == SizedFile(MAX_FILE_SIZE + 1, text, TRUE)

\* what each recognized manifest may hold: nothing declared, or something
ManifestTexts ==
    (<<"r", "e", "q", "u", "i", "r", "e", "m", "e", "n", "t", "s", ".", "t", "x", "t">> :> <<<<"#", " ", "n", "o", "t", "h", "i", "n", "g", "\n">>, <<"f", "l", "a", "s", "k", "\n">>>>)
    @@ (<<"r", "e", "q", "u", "i", "r", "e", "m", "e", "n", "t", "s", "-", "d", "e", "v", ".", "t", "x", "t">> :> <<<<"\n">>, <<"p", "y", "t", "e", "s", "t", "\n">>>>)
    @@ (<<"p", "y", "p", "r", "o", "j", "e", "c", "t", ".", "t", "o", "m", "l">> :>
            <<<<"[", "t", "o", "o", "l", ".", "p", "o", "e", "t", "r", "y", "]", "\n", "n", "a", "m", "e", " ", "=", " ", "\"", "x", "\"", "\n">>,
              <<"[", "t", "o", "o", "l", ".", "p", "o", "e", "t", "r", "y", ".", "d", "e", "p", "e", "n", "d", "e", "n", "c", "i", "e", "s", "]", "\n", "p", "y", "t", "h", "o", "n", " ", "=", " ", "\"", "^", "3", ".", "8", "\"", "\n", "r", "e", "q", "u", "e", "s", "t", "s", " ", "=", " ", "\"", "^", "2", "\"", "\n">>>>)
    @@ (<<"s", "e", "t", "u", "p", ".", "p", "y">> :>
            <<<<"s", "e", "t", "u", "p", "(", "n", "a", "m", "e", "=", "'", "x", "'", ")", "\n">>, <<"s", "e", "t", "u", "p", "(", "i", "n", "s", "t", "a", "l", "l", "_", "r", "e", "q", "u", "i", "r", "e", "s", "=", "[", "'", "a", ">", "=", "1", "'", "]", ")", "\n">>>>)
    @@ (<<"s", "e", "t", "u", "p", ".", "c", "f", "g">> :> <<<<"[", "m", "e", "t", "a", "d", "a", "t", "a", "]", "\n", "n", "a", "m", "e", " ", "=", " ", "x", "\n">>, <<"r", "e", "q", "u", "i", "r", "e", "s", " ", "=", " ", "[", "\"", "b", "\"", "]", "\n">>>>)
    @@ (<<"P", "i", "p", "f", "i", "l", "e">> :> <<<<"[", "p", "a", "c", "k", "a", "g", "e", "s", "]", "\n">>, <<"[", "p", "a", "c", "k", "a", "g", "e", "s", "]", "\n", "r", "e", "q", "u", "e", "s", "t", "s", " ", "=", " ", "\"", "*", "\"", "\n">>>>)

ManifestNode(req_file, option) ==
    IF option = "oversize" THEN TooLarge(ManifestTexts[req_file][2])
    ELSE File(ManifestTexts[req_file][IF option = "nothing" THEN 1 ELSE 2])

MixTrees ==
    {Under(proj,
           [p \in {Append(proj, req_file) :
                      req_file \in {r \in REQUIREMENTS_FILES :
                                       choice[r] # "absent"}} |->
               ManifestNode(name(p), choice[name(p)])]) :
        choice \in {c \in [REQUIREMENTS_FILES ->
                             {"absent", "nothing", "declares", "oversize"}] :
                       \A r \in REQUIREMENTS_FILES :
                           c[r] = "oversize" => r = <<"r", "e", "q", "u", "i", "r", "e", "m", "e", "n", "t", "s", ".", "t", "x", "t">>}}

InitManifest ==
    /\ root_directory = proj
    /\ fs \in ReqTrees \cup TomlTrees \cup MixTrees
    /\ scandir_order = "asc"
    /\ call = [op |-> "__init__", args |-> <<>>]
    /\ result = Text(<<>>)
    /\ fs_access = FALSE
    /\ set_reported = TRUE
    /\ root_before = root_directory

ParseRequirementsTxt(req_file) ==
    /\ exists(fs, Append(root_directory, req_file))
    /\ result' = _parse_requirements_txt(fs, Append(root_directory, req_file))
    /\ call' = [op |-> "_parse_requirements_txt", args |-> <<req_file>>]
    /\ fs_access' = TRUE
    /\ UNCHANGED <<root_directory, fs, scandir_order, set_reported,
                 root_before>>

ParsePyprojectToml ==
    /\ exists(fs, Append(root_directory, <<"p", "y", "p", "r", "o", "j", "e", "c", "t", ".", "t", "o", "m", "l">>))
    /\ result' = _parse_pyproject_toml(
                     fs, Append(root_directory, <<"p", "y", "p", "r", "o", "j", "e", "c", "t", ".", "t", "o", "m", "l">>))
    /\ call' = [op |-> "_parse_pyproject_toml", args |-> <<>>]
    /\ fs_access' = TRUE
    /\ UNCHANGED <<root_directory, fs, scandir_order, set_reported,
                 root_before>>

ParseSetupFile(req_file) ==
    /\ exists(fs, Append(root_directory, req_file))
    /\ result' = _parse_setup_file(fs, Append(root_directory, req_file))
    /\ call' = [op |-> "_parse_setup_file", args |-> <<req_file>>]
    /\ fs_access' = TRUE
    /\ UNCHANGED <<root_directory, fs, scandir_order, set_reported,
                 root_before>>

AnalyzeRequirementFiles ==
    /\ result' = _analyze_requirement_files(fs, root_directory)
    /\ call' = [op |-> "_analyze_requirement_files", args |-> <<>>]
    /\ fs_access' = TRUE
    /\ UNCHANGED <<root_directory, fs, scandir_order, set_reported,
                 root_before>>

NextManifest ==
    \/ \E req_file \in {<<"r", "e", "q", "u", "i", "r", "e", "m", "e", "n", "t", "s", ".", "t", "x", "t">>, <<"r", "e", "q", "u", "i", "r", "e", "m", "e", "n", "t", "s", "-", "d", "e", "v", ".", "t", "x", "t">>} :
           ParseRequirementsTxt(req_file)
    \/ ParsePyprojectToml
    \/ \E req_file \in {<<"s", "e", "t", "u", "p", ".", "p", "y">>, <<"s", "e", "t", "u", "p", ".", "c", "f", "g">>} : ParseSetupFile(req_file)
    \/ AnalyzeRequirementFiles

SpecManifest == InitManifest /\ [][NextManifest]_vars

(***************************************************************************)
(* The bulk operations over a project: manifests, import tally, search     *)
(***************************************************************************)
\* _search_code up to the point where the list matches is complete
SearchMatches(query, case_sensitive, file_pattern) ==
    /\ result' = search_matches(fs, root_directory, query, case_sensitive,
                                file_pattern)
    /\ call' = [op |-> "search_matches",
                args |-> <<query, case_sensitive, file_pattern>>]
    /\ fs_access' = TRUE
    /\ UNCHANGED <<root_directory, fs, scandir_order, set_reported,
                 root_before>>

a_py == Append(proj, <<"a", ".", "p", "y">>)

b_py == proj \o <<<<"l", "i", "b">>, <<"b", ".", "p", "y">>>>

c_pyi == Append(proj, <<"c", ".", "p", "y", "i">>)

PyLines ==
    {<<"i", "m", "p", "o", "r", "t", " ", "o", "s">>, <<"f", "r", "o", "m", " ", "o", "s", ".", "p", "a", "t", "h", " ", "i", "m", "p", "o", "r", "t", " ", "j", "o", "i", "n">>, <<" ", " ", "#", " ", "t", "o", "d", "o", ":", " ", "f", "i", "x">>,
     <<"T", "O", "D", "O", " ", "=", " ", "i", "m", "p", "o", "r", "t", "l", "i", "b">>, <<"i", "m", "p", "o", "r", "t", " ", "s", "y", "s", ",", " ", "o", "s">>}

MaxPyLines == 2

PyTexts == {join_lines(lines) : lines \in SeqsUpTo(PyLines, MaxPyLines)}

LibTexts == {<<"i", "m", "p", "o", "r", "t", " ", "o", "s", "\n", "f", "r", "o", "m", " ", "o", "s", ".", "p", "a", "t", "h", " ", "i", "m", "p", "o", "r", "t", " ", "j", "o", "i", "n", "\n">>, <<"x", " ", "=", " ", "1", " ", " ", "#", " ", "T", "O", "D", "O", "\n">>}

\* two source files, each absent or holding a few lines
SmallTrees ==
    {Under(proj, (Append(proj, <<"l", "i", "b">>) :> Dir(TRUE))
                 @@ [p \in DOMAIN texts |-> File(texts[p])]) :
        texts \in [{a_py} -> PyTexts] \cup [{b_py} -> LibTexts]
                     \cup {(a_py :> t) @@ (b_py :> u) :
                              t \in PyTexts, u \in LibTexts}}

\* sources and manifests, each of which may be too large to read
FailTrees ==
    {Under(proj,
           (Append(proj, <<"l", "i", "b">>) :> Dir(TRUE))
           @@ (a_py :> IF a_py \in big THEN TooLarge(<<"i", "m", "p", "o", "r", "t", " ", "o", "s", "\n", "#", " ", "T", "O", "D", "O", "\n">>)
                       ELSE File(<<"i", "m", "p", "o", "r", "t", " ", "o", "s", "\n", "#", " ", "T", "O", "D", "O", "\n">>))
           @@ (b_py :> IF b_py \in big
                       THEN TooLarge(<<"#", " ", "t", "o", "d", "o", "\n", "f", "r", "o", "m", " ", "o", "s", ".", "p", "a", "t", "h", " ", "i", "m", "p", "o", "r", "t", " ", "j", "o", "i", "n", "\n">>)
                       ELSE File(<<"#", " ", "t", "o", "d", "o", "\n", "f", "r", "o", "m", " ", "o", "s", ".", "p", "a", "t", "h", " ", "i", "m", "p", "o", "r", "t", " ", "j", "o", "i", "n", "\n">>))
           @@ (c_pyi :> IF c_pyi \in big THEN TooLarge(<<"i", "m", "p", "o", "r", "t", " ", "r", "e", " ", " ", "#", " ", "T", "O", "D", "O", "\n">>)
                        ELSE File(<<"i", "m", "p", "o", "r", "t", " ", "r", "e", " ", " ", "#", " ", "T", "O", "D", "O", "\n">>))
           @@ [p \in {Append(proj, r) : r \in manifests} |->
                  IF p \in big THEN TooLarge(ManifestTexts[name(p)][2])
                  ELSE File(ManifestTexts[name(p)][2])]) :
        big \in SUBSET {a_py, b_py, c_pyi, Append(proj, <<"r", "e", "q", "u", "i", "r", "e", "m", "e", "n", "t", "s", ".", "t", "x", "t">>),
                        Append(proj, <<"s", "e", "t", "u", "p", ".", "p", "y">>)},
        manifests \in {{<<"r", "e", "q", "u", "i", "r", "e", "m", "e", "n", "t", "s", ".", "t", "x", "t">>, <<"s", "e", "t", "u", "p", ".", "p", "y">>},
                       {<<"r", "e", "q", "u", "i", "r", "e", "m", "e", "n", "t", "s", ".", "t", "x", "t">>, <<"s", "e", "t", "u", "p", ".", "p", "y">>,
                        <<"p", "y", "p", "r", "o", "j", "e", "c", "t", ".", "t", "o", "m", "l">>}}}

InitBulk ==
    /\ root_directory = proj
    /\ fs \in SmallTrees \cup FailTrees
    /\ scandir_order = "asc"
    /\ call = [op |-> "__init__", args |-> <<>>]
    /\ result = Text(<<>>)
    /\ fs_access = FALSE
    /\ set_reported = TRUE
    /\ root_before = root_directory

AnalyzeImports ==
    /\ result' = _analyze_imports(fs, root_directory)
    /\ call' = [op |-> "_analyze_imports", args |-> <<>>]
    /\ fs_access' = TRUE
    /\ UNCHANGED <<root_directory, fs, scandir_order, set_reported,
                 root_before>>

NextBulk ==
    \/ AnalyzeRequirementFiles
    \/ AnalyzeImports
    \/ \E query \in {<<"T", "O", "D", "O">>, <<"o", "s">>}, case_sensitive \in BOOLEAN :
           SearchMatches(query, case_sensitive, None)
    \/ \E query \in {<<"T", "O", "D", "O">>, <<"o", "s">>}, case_sensitive \in BOOLEAN :
           SearchCode(query, case_sensitive, None)

SpecBulk == InitBulk /\ [][NextBulk]_vars

(***************************************************************************)
(* Searching files of many matching lines                                  *)
(***************************************************************************)
\* lines, n times over
Repeat(lines, n) ==
    <<>> \o [i \in 1..(n * Len(lines)) |-> lines[((i - 1) % Len(lines)) + 1]]

MaxRepeat == 30

\* two source files of many matching lines
LongTrees ==
    {Under(proj, (Append(proj, <<"l", "i", "b">>) :> Dir(TRUE))
                 @@ (a_py :> File(join_lines(Repeat(<<<<"#", " ", "T", "O", "D", "O">>>>, n))))
                 @@ (b_py :> File(join_lines(
                                 Repeat(<<<<"x", " ", "=", " ", "1">>, <<"#", " ", "t", "o", "d", "o">>>>, m))))) :
        n \in 0..MaxRepeat, m \in {0, MaxRepeat}}

InitSearch ==
    /\ root_directory = proj
    /\ fs \in LongTrees
    /\ scandir_order = "asc"
    /\ call = [op |-> "__init__", args |-> <<>>]
    /\ result = Text(<<>>)
    /\ fs_access = FALSE
    /\ set_reported = TRUE
    /\ root_before = root_directory

NextSearch ==
    \/ \E query \in {<<"T", "O", "D", "O">>, <<"x">>}, case_sensitive \in BOOLEAN :
           SearchMatches(query, case_sensitive, None)
    \/ \E query \in {<<"T", "O", "D", "O">>, <<"x">>}, case_sensitive \in BOOLEAN :
           SearchCode(query, case_sensitive, None)

SpecSearch == InitSearch /\ [][NextSearch]_vars

(***************************************************************************)
(* Properties of the session                                               *)
(***************************************************************************)
RootOps ==
    {"explore_project_structure", "read_file", "find_python_files",
     "analyze_dependencies", "search_code", "get_project_info"}

\* C1: as long as no set_project_root call has succeeded (initially, and
\* after calls that all reported an error), every root-requiring operation
\* returns the "No project root set" error and touches no file.
C1_NoRootUntilSetSucceeds ==
    (~set_reported /\ call.op \in RootOps)
        => (result = NoRootSet /\ ~fs_access)

(***************************************************************************)
(* Properties of the source file index and the tree walk                   *)
(***************************************************************************)
\* the source files below root that can be reached and whose path relative
\* to root has no component named like an excluded directory
SourcesByRelativePath(F, root) ==
    {p \in DOMAIN F :
        /\ is_under(p, root)
        /\ F[p].kind = "file"
        /\ ~denied(F, p)
        /\ \E ext \in PYTHON_EXTENSIONS : endswith(name(p), ext)
        /\ \A i \in (Len(root) + 1)..Len(p) : p[i] \notin EXCLUDE_DIRS}

\* C3: the index holds exactly the source files below the root whose path
\* relative to the root has no excluded component, whatever the directories
\* above the root are called.
C3_IndexByRelativePath ==
    call.op = "_get_python_files"
        => {result[i] : i \in 1..Len(result)}
               = SourcesByRelativePath(fs, root_directory)

(***************************************************************************)
(* Properties of reading one file                                          *)
(***************************************************************************)
\* C4: reading a path that does not exist fails with FileNotFoundError; a
\* file of at most 1,048,576 bytes is read; a file of 1,048,577 bytes or more
\* fails with ValueError, which carries the size observed.
C4_ReadUpToTheCap ==
    call.op = "_read_file_content"
        => LET file_path == call.args[1]
           IN  IF file_path \notin DOMAIN fs
               THEN ~result.ok /\ result.exc = "FileNotFoundError"
               ELSE IF fs[file_path].size <= 1048576
               THEN result.ok
               ELSE /\ ~result.ok
                    /\ result.exc = "ValueError"
                    /\ result.size = fs[file_path].size

\* a file of exactly 1,048,576 bytes has been read
C4_ReadAtTheCap ==
    /\ call.op = "_read_file_content"
    /\ call.args[1] \in DOMAIN fs
    /\ fs[call.args[1]].size = 1048576
    /\ result.ok

(***************************************************************************)
(* Properties of the tree walk                                             *)
(***************************************************************************)
\* no entry below root is hidden, named like an excluded directory, or a
\* directory that cannot be listed
NothingSkipped(F, root) ==
    \A p \in DOMAIN F :
        is_under(p, root)
            => /\ ~startswith(name(p), <<".">>)
               /\ name(p) \notin EXCLUDE_DIRS
               /\ F[p].readable

\* the entries of root are at depth 1
DepthBelow(root, p) == Len(p) - Len(root)

\* the files below root at depth max_depth or less
FilesWithin(F, root, max_depth) ==
    {p \in DOMAIN F :
        /\ is_under(p, root)
        /\ F[p].kind = "file"
        /\ DepthBelow(root, p) <= max_depth}

\* the lines of the given kind that the walk emitted for entry p
LinesFor(lines, kind, p) ==
    {i \in 1..Len(lines) : lines[i].kind = kind /\ lines[i].item = p}

BareName(requirement) ==
    LET stops == {i \in 1..Len(requirement) :
                     requirement[i] \in {"<", ">", "=", "!", "~", ";", "["}}
    IN  IF stops = {} THEN requirement
        ELSE SubSeq(requirement, 1,
                    (CHOOSE i \in stops : \A j \in stops : i <= j) - 1)

\* one bare name for each line that is not blank and starts with neither
\* '#' nor '-'
RECURSIVE BareNames(_)
BareNames(lines) ==
    IF lines = <<>> THEN <<>>
    ELSE (IF strip(Head(lines)) # <<>>
             /\ strip(Head(lines))[1] \notin {"#", "-"}
          THEN <<BareName(split_ws(Head(lines))[1])>>
          ELSE <<>>)
         \o BareNames(Tail(lines))

\* C2: a line-list manifest yields, for each line that is not blank and starts
\* with neither '#' nor '-', the dependency name without its version
\* constraint, and nothing for the other lines.
C2_NamesWithoutConstraint ==
    (call.op = "_parse_requirements_txt" /\ ~result.raised)
        => result.deps
               = BareNames(split(
                     fs[Append(root_directory, call.args[1])].content,
                     <<"\n">>))

(***************************************************************************)
(* Properties of the manifest analysis                                     *)
(***************************************************************************)
Manifest(req_file) == Append(root_directory, req_file)

\* a Pipfile declares a dependency when a line  name = spec  follows its
\* [packages] header
PipfileDeclares(text) ==
    LET lines == split(text, <<"\n">>)
    IN  \E i, j \in 1..Len(lines) :
            /\ i < j
            /\ strip(lines[i]) = <<"[", "p", "a", "c", "k", "a", "g", "e", "s", "]">>
            /\ contains(lines[j], <<"=">>)

\* what the extractor written for req_file makes of the file at the root
Extracted(req_file) ==
    IF req_file \in {<<"r", "e", "q", "u", "i", "r", "e", "m", "e", "n", "t", "s", ".", "t", "x", "t">>, <<"r", "e", "q", "u", "i", "r", "e", "m", "e", "n", "t", "s", "-", "d", "e", "v", ".", "t", "x", "t">>}
    THEN _parse_requirements_txt(fs, Manifest(req_file))
    ELSE IF req_file = <<"p", "y", "p", "r", "o", "j", "e", "c", "t", ".", "t", "o", "m", "l">>
    THEN _parse_pyproject_toml(fs, Manifest(req_file))
    ELSE _parse_setup_file(fs, Manifest(req_file))

Declares(req_file) ==
    IF req_file = <<"P", "i", "p", "f", "i", "l", "e">>
    THEN PipfileDeclares(fs[Manifest(req_file)].content)
    ELSE Extracted(req_file).deps # <<>>

\* C7: with every manifest readable, each of the six recognized
\* names has an entry exactly when its file is present at the root and
\* declares a dependency, and there is no other key.
C7_EntryForEachOfSixNames ==
    (/\ call.op = "_analyze_requirement_files"
     /\ \A req_file \in REQUIREMENTS_FILES :
            Manifest(req_file) \in DOMAIN fs
                => fs[Manifest(req_file)].size <= MAX_FILE_SIZE)
        => /\ DOMAIN result \subseteq REQUIREMENTS_FILES
           /\ \A req_file \in REQUIREMENTS_FILES :
                  req_file \in DOMAIN result
                      <=> (Manifest(req_file) \in DOMAIN fs
                               /\ Declares(req_file))

\* what the analysis does guarantee: an entry exists exactly for the names
\* other than Pipfile whose file is present at the root, is read without error
\* and yields at least one dependency from its extractor, and the entry is
\* what the extractor yields
EntriesOfParsedNames ==
    call.op = "_analyze_requirement_files"
        => /\ DOMAIN result \subseteq REQUIREMENTS_FILES \ {<<"P", "i", "p", "f", "i", "l", "e">>}
           /\ \A req_file \in REQUIREMENTS_FILES \ {<<"P", "i", "p", "f", "i", "l", "e">>} :
                  req_file \in DOMAIN result
                      <=> /\ Manifest(req_file) \in DOMAIN fs
                          /\ ~Extracted(req_file).raised
                          /\ Extracted(req_file).deps # <<>>
           /\ \A req_file \in DOMAIN result :
                  result[req_file] = Extracted(req_file).deps

\* the analysis ran on a root with a Pipfile that declares a dependency, a
\* manifest that declares none, one too large to read and one that got an
\* entry
MixedManifestsAnalyzed ==
    /\ call.op = "_analyze_requirement_files"
    /\ Manifest(<<"P", "i", "p", "f", "i", "l", "e">>) \in DOMAIN fs
    /\ PipfileDeclares(fs[Manifest(<<"P", "i", "p", "f", "i", "l", "e">>)].content)
    /\ Manifest(<<"r", "e", "q", "u", "i", "r", "e", "m", "e", "n", "t", "s", ".", "t", "x", "t">>) \in DOMAIN fs
    /\ fs[Manifest(<<"r", "e", "q", "u", "i", "r", "e", "m", "e", "n", "t", "s", ".", "t", "x", "t">>)].size > MAX_FILE_SIZE
    /\ \E req_file \in REQUIREMENTS_FILES \ {<<"P", "i", "p", "f", "i", "l", "e">>} :
           /\ Manifest(req_file) \in DOMAIN fs
           /\ ~Extracted(req_file).raised
           /\ Extracted(req_file).deps = <<>>
    /\ DOMAIN result # {}

(***************************************************************************)
(* Properties of the bulk operations                                       *)
(***************************************************************************)
\* the files that _read_file_content refuses
Failing(F) ==
    {p \in DOMAIN F : F[p].kind = "file" /\ ~_read_file_content(F, p).ok}

\* the filesystem without the entries of gone
Without(F, gone) == [p \in DOMAIN F \ gone |-> F[p]]

\* C6: each bulk operation completes, and reports what it would report were
\* the files it failed to read absent.
C6_FailureRemovesOneContribution ==
    LET rest == Without(fs, Failing(fs))
    IN  /\ call.op = "_analyze_requirement_files"
               => result = _analyze_requirement_files(rest, root_directory)
        /\ call.op = "_analyze_imports"
               => result = _analyze_imports(rest, root_directory)
        /\ call.op = "search_matches"
               => result = search_matches(rest, root_directory, call.args[1],
                                          call.args[2], call.args[3])
        /\ call.op = "search_code"
               => /\ result = _search_code(rest, root_directory, call.args[1],
                                           call.args[2], call.args[3])
                  /\ ~result.error

\* the tally ran over a project with an unreadable source file before a
\* readable one, and counted the imports of the readable one
C6_TallyPastFailure ==
    /\ call.op = "_analyze_imports"
    /\ a_py \in Failing(fs)
    /\ b_py \in DOMAIN fs \ Failing(fs)
    /\ result # <<>>

\* the source files of the index that can be read, in index order
Readable ==
    SelectSeq(_get_python_files(fs, root_directory),
              LAMBDA p : p \notin Failing(fs))

LinesOf(p) == split(fs[p].content, <<"\n">>)

\* sub occurs in s
Occurs(sub, s) ==
    \E i \in 0..(Len(s) - Len(sub)) : SubSeq(s, i + 1, i + Len(sub)) = sub

\* the line matches the query
LineMatches(line, query, case_sensitive) ==
    IF case_sensitive THEN Occurs(query, line)
    ELSE Occurs(lower(query), lower(line))

\* every <<k, n>> such that line n of the k-th file of files matches
MatchingLines(files, query, case_sensitive) ==
    UNION {{<<k, n>> : n \in {l \in 1..Len(LinesOf(files[k])) :
                                LineMatches(LinesOf(files[k])[l], query,
                                            case_sensitive)}} :
              k \in 1..Len(files)}

\* the places <<k, n>> that the reported matches name, in the order reported
PlacesOf(files, matches) ==
    <<>> \o [i \in 1..Len(matches) |->
                <<CHOOSE k \in 1..Len(files) :
                      relative_to(files[k], root_directory) = matches[i].file,
                  matches[i].line>>]

Before(a, b) == a[1] < b[1] \/ (a[1] = b[1] /\ a[2] < b[2])

\* C8: matches are listed by file in index order, then by ascending line;
\* the first min(total, 50) are shown; the total reported is the number of
\* matching lines, and the overflow is total - 50.
C8_FirstFiftyInOrder ==
    call.op = "search_code"
        => \A all \in {MatchingLines(Readable, call.args[1], call.args[2])} :
               IF all = {}
               THEN result.text = "No matches found"
               ELSE \A shown \in {PlacesOf(Readable, result.body.shown)} :
                        /\ result.body.found = Cardinality(all)
                        /\ Len(shown) = IF Cardinality(all) < 50
                                        THEN Cardinality(all) ELSE 50
                        /\ result.body.more
                               = IF Cardinality(all) > 50
                                 THEN Cardinality(all) - 50 ELSE 0
                        /\ \A i \in 1..Len(shown) : shown[i] \in all
                        /\ \A i \in 1..(Len(shown) - 1) :
                               Before(shown[i], shown[i + 1])
                        /\ \A place \in all :
                               \/ \E i \in 1..Len(shown) : shown[i] = place
                               \/ Before(shown[Len(shown)], place)

\* a search found more than 50 matching lines, in two files
C8_MoreThanFiftyFound ==
    /\ call.op = "search_code"
    /\ ~result.error
    /\ result.text # "No matches found"
    /\ result.body.found > 50
    /\ result.body.more = result.body.found - 50
    /\ result.body.shown[1].file = <<<<"a", ".", "p", "y">>>>
    /\ \E place \in MatchingLines(Readable, call.args[1], call.args[2]) :
           place[1] = 2

\* C9: a line matches when the query occurs in it, both lower-cased unless
\* the search is case-sensitive; every matching line of a readable file is
\* reported once, with its 1-based line number, and nothing else is.
C9_CaseAndLineNumber ==
    call.op = "search_matches"
        => \A all \in {MatchingLines(Readable, call.args[1], call.args[2])} :
               /\ \A i \in 1..Len(result) :
                      \E k \in 1..Len(Readable) :
                          /\ relative_to(Readable[k], root_directory)
                                 = result[i].file
                          /\ <<k, result[i].line>> \in all
                          /\ result[i].content
                                 = strip(LinesOf(Readable[k])[result[i].line])
               /\ \A reported \in {PlacesOf(Readable, result)} :
                      \A place \in all :
                          Cardinality({i \in 1..Len(reported) :
                                          reported[i] = place}) = 1

\* the query TODO, searched without regard to case, matched "# todo: fix" on
\* the second line of a file whose first line does not match
C9_TodoFoundOnLineTwo ==
    /\ call.op = "search_matches"
    /\ call.args = <<<<"T", "O", "D", "O">>, FALSE, None>>
    /\ a_py \in DOMAIN fs
    /\ Len(LinesOf(a_py)) = 2
    /\ LinesOf(a_py)[2] = <<" ", " ", "#", " ", "t", "o", "d", "o", ":", " ", "f", "i", "x">>
    /\ result = <<[file |-> <<<<"a", ".", "p", "y">>>>, line |-> 2,
                   content |-> <<"#", " ", "t", "o", "d", "o", ":", " ", "f", "i", "x">>]>>

\* the module a trimmed line imports: the line reads  import <module>  or
\* from <module> import ...; <<>> stands for a line that imports nothing
ImportedModules(line) ==
    LET words == split_ws(line)
    IN  IF Len(words) >= 2 /\ words[1] = <<"i", "m", "p", "o", "r", "t">> /\ words[2][1] # ","
        THEN <<split(words[2], <<",">>)[1]>>
        ELSE IF /\ Len(words) >= 3
                /\ words[1] = <<"f", "r", "o", "m">>
                /\ ~contains(words[2], <<",">>)
                /\ startswith(words[3], <<"i", "m", "p", "o", "r", "t">>)
        THEN <<words[2]>>
        ELSE <<>>

\* the text before the first '.'
TopLevel(module) ==
    LET dots == {i \in 1..Len(module) : module[i] = "."}
    IN  IF dots = {} THEN module
        ELSE SubSeq(module, 1, (CHOOSE i \in dots : \A j \in dots : i <= j) - 1)

\* every <<k, n, top>> such that line n of the k-th file of files, trimmed,
\* imports a module whose top-level component is top
ImportingLines(files) ==
    UNION {{<<k, n, TopLevel(ImportedModules(strip(LinesOf(files[k])[n]))[1])>> :
               n \in {l \in 1..Len(LinesOf(files[k])) :
                         ImportedModules(strip(LinesOf(files[k])[l])) # <<>>}} :
              k \in 1..Len(files)}

RECURSIVE SumCounts(_)
SumCounts(import_counts) ==
    IF import_counts = <<>> THEN 0
    ELSE Head(import_counts).count + SumCounts(Tail(import_counts))

\* C10: the count of a top-level module is the number of trimmed lines of the
\* readable source files that import it, a line that imports nothing counts
\* for nothing, and the counts add up to the number of importing lines.
C10_OneCountPerImportingLine ==
    call.op = "_analyze_imports"
        => \A importing \in {ImportingLines(Readable)} :
               /\ \A i \in 1..Len(result) :
                      /\ result[i].count > 0
                      /\ result[i].count
                             = Cardinality({h \in importing :
                                               h[3] = result[i].module})
                      /\ \A j \in 1..Len(result) :
                             result[j].module = result[i].module => j = i
               /\ \A h \in importing :
                      \E i \in 1..Len(result) : result[i].module = h[3]
               /\ SumCounts(result) = Cardinality(importing)

\* the tally of a file that holds "import os" and "from os.path import join"
\* counts os twice
C10_OsCountedTwice ==
    /\ call.op = "_analyze_imports"
    /\ a_py \in DOMAIN fs
    /\ b_py \notin DOMAIN fs
    /\ LinesOf(a_py) = <<<<"i", "m", "p", "o", "r", "t", " ", "o", "s">>, <<"f", "r", "o", "m", " ", "o", "s", ".", "p", "a", "t", "h", " ", "i", "m", "p", "o", "r", "t", " ", "j", "o", "i", "n">>>>
    /\ result = <<[module |-> <<"o", "s">>, count |-> 2]>>

(***************************************************************************)
(* Properties of the overview                                              *)
(***************************************************************************)
\* the root holds no source file and no recognized manifest, and its entries
\* can be examined
ZeroIndicatorRoot ==
    /\ root_directory # None
    /\ listable(fs, root_directory)
    /\ ~\E d \in DOMAIN fs : parent(d) = root_directory /\ ~listable(fs, d)
    /\ _get_python_files(fs, root_directory) = <<>>
    /\ ~\E file_name \in REQUIREMENTS_FILES :
           exists(fs, Append(root_directory, file_name))

\* the kinds of line the overview of a project is made of
ProjectLines ==
    {"title", "rule", "project_root", "python_files", "python_packages",
     "configuration_files", "documentation", "dependencies",
     "use_other_tools"}

\* C11: for a root with no Python files and no recognized manifests the
\* overview is returned without error, reports zero files and zero
\* dependencies, and carries a line saying that the directory is not a
\* recognizable project.
C11_ZeroIndicatorOverview ==
    (call.op = "get_project_info" /\ ZeroIndicatorRoot)
        => /\ ~result.error
           /\ result.body.python_files = 0
           /\ result.body.dependencies = <<0>>
           /\ \E i \in 1..Len(result.body.lines) :
                  result.body.lines[i] \notin ProjectLines

(***************************************************************************)
(* Properties of the block parser                                          *)
(***************************************************************************)
\* the line opens a dependency section
IsHeader(line) ==
    \/ startswith(strip(line), <<"[", "t", "o", "o", "l", ".", "p", "o", "e", "t", "r", "y", ".", "d", "e", "p", "e", "n", "d", "e", "n", "c", "i", "e", "s", "]">>)
    \/ startswith(strip(line), <<"d", "e", "p", "e", "n", "d", "e", "n", "c", "i", "e", "s", " ", "=", " ", "[">>)

\* the line starts another bracketed section
IsSectionStart(line) ==
    strip(line) # <<>> /\ strip(line)[1] = "[" /\ ~IsHeader(line)

\* line i lies after a header and before the next line that starts a section
InsideSection(lines, i) ==
    \E h \in 1..(i - 1) :
        /\ IsHeader(lines[h])
        /\ \A j \in (h + 1)..i : ~IsSectionStart(lines[j])

\* what stands left of the first '=', without surrounding whitespace and quotes
LeftHandSide(line) ==
    LET first == CHOOSE i \in 1..Len(line) :
                     line[i] = "=" /\ \A j \in 1..(i - 1) : line[j] # "="
    IN  strip_chars(strip(SubSeq(line, 1, first - 1)), {"\"", "'"})

\* the lines that name a dependency, in line order
DependencyLines(lines) ==
    SelectSeq(<<>> \o [i \in 1..Len(lines) |-> i],
              LAMBDA i : /\ InsideSection(lines, i)
                         /\ ~IsHeader(lines[i])
                         /\ \E k \in 1..Len(lines[i]) : lines[i][k] = "="
                         /\ LeftHandSide(lines[i]) # <<"p", "y", "t", "h", "o", "n">>)

\* C12: the block parser returns, in line order, the left-hand sides of the
\* lines containing '=' that lie after a dependency-section header and
\* before the next line starting with '[', except the name python; header
\* lines, lines before the first header and lines after a section-ending
\* line contribute nothing.
C12_LeftHandSidesInsideSections ==
    (call.op = "_parse_pyproject_toml" /\ ~result.raised)
        => \A lines \in {LinesOf(Manifest(<<"p", "y", "p", "r", "o", "j", "e", "c", "t", ".", "t", "o", "m", "l">>))} :
               \A named \in {DependencyLines(lines)} :
                   /\ Len(result.deps) = Len(named)
                   /\ \A k \in 1..Len(named) :
                          result.deps[k] = LeftHandSide(lines[named[k]])

\* a manifest with a dependency inside a section, a section-ending line and
\* an assignment after it was parsed: only the first is named
C12_SectionEndedThenAssignment ==
    /\ call.op = "_parse_pyproject_toml"
    /\ LinesOf(Manifest(<<"p", "y", "p", "r", "o", "j", "e", "c", "t", ".", "t", "o", "m", "l">>))
           = <<<<"[", "t", "o", "o", "l", ".", "p", "o", "e", "t", "r", "y", ".", "d", "e", "p", "e", "n", "d", "e", "n", "c", "i", "e", "s", "]">>, <<" ", "\"", "r", "e", "q", "u", "e", "s", "t", "s", "\"", " ", "=", " ", "\"", "^", "2", "\"">>,
               <<"[", "t", "o", "o", "l", ".", "b", "l", "a", "c", "k", "]">>, <<" ", "\"", "r", "e", "q", "u", "e", "s", "t", "s", "\"", " ", "=", " ", "\"", "^", "2", "\"">>>>
    /\ result.deps = <<<<"r", "e", "q", "u", "e", "s", "t", "s">>>>

(***************************************************************************)
(* Properties of the order and the denial markers of the tree walk         *)
(***************************************************************************)
\* the positions of the lines emitted for the entries of directory d
LevelOf(lines, d) ==
    SelectSeq(<<>> \o [i \in 1..Len(lines) |-> i],
              LAMBDA i : lines[i].kind \in {"dir", "file"}
                           /\ parent(lines[i].item) = d)

\* line a may stand before line b of the same level: not a file before a
\* directory, and within one kind the lower-cased names do not descend
InKeyOrder(a, b) ==
    /\ ~(a.kind = "file" /\ b.kind = "dir")
    /\ a.kind = b.kind
           => ~str_lt(lower(name(b.item)), lower(name(a.item)))

\* C13: at every rendered level the directory lines precede the file lines,
\* and within the directories and within the files the names ascend
\* case-insensitively.
C13_LevelsInKeyOrder ==
    call.op = "_build_directory_tree"
        => \A d \in {parent(result[i].item) : i \in 1..Len(result)} :
               \A level \in {LevelOf(result, d)} :
                   \A m, n \in 1..Len(level) :
                       m < n => InKeyOrder(result[level[m]], result[level[n]])

\* the OS listed the root in descending order, and the walk rendered pkg/
\* before main.py before README.md
C13_DirectoryThenNamesIgnoringCase ==
    /\ call.op = "_build_directory_tree"
    /\ scandir_order = "desc"
    /\ \E i, j, k \in 1..Len(result) :
           /\ i < j /\ j < k
           /\ result[i].item = Append(root_directory, <<"p", "k", "g">>)
           /\ result[j].item = Append(root_directory, <<"m", "a", "i", "n", ".", "p", "y">>)
           /\ result[k].item = Append(root_directory, <<"R", "E", "A", "D", "M", "E", ".", "m", "d">>)

\* the filesystem in which every directory that cannot be listed is listable
\* and empty
Opened(F) ==
    LET closed == {d \in DOMAIN F : ~F[d].readable}
        kept == {p \in DOMAIN F : ~\E d \in closed : is_under(p, d)}
    IN  [p \in kept |-> IF p \in closed THEN Dir(TRUE) ELSE F[p]]

\* the lines other than denial markers
Rendered(lines) == SelectSeq(lines, LAMBDA l : l.kind # "denied")

\* C14: a subdirectory that cannot be listed gets, right after its own line,
\* exactly one denial marker, and every other line of the walk is what it
\* would be were that subdirectory listable and empty.
C14_DenialMarkerAndSiblings ==
    (call.op = "_build_directory_tree" /\ listable(fs, root_directory))
        => /\ Rendered(result)
                  = _build_directory_tree(Opened(fs), scandir_order,
                                          root_directory, call.args[1],
                                          call.args[2], 0)
           /\ \A i \in 1..Len(result) :
                  result[i].kind = "denied"
                      => /\ ~listable(fs, result[i].item)
                         /\ i > 1
                         /\ result[i - 1].kind = "dir"
                         /\ result[i - 1].item = result[i].item
                         /\ result[i].indent = result[i - 1].indent + 1
           /\ \A i \in 1..Len(result) :
                  (/\ result[i].kind = "dir"
                   /\ ~listable(fs, result[i].item)
                   /\ result[i].indent < call.args[1] - 1)
                      => /\ i < Len(result)
                         /\ result[i + 1].kind = "denied"
                         /\ result[i + 1].item = result[i].item

\* the walk met a directory it could not list between two siblings, marked
\* it, and rendered the sibling before it and the sibling after it
C14_DeniedBetweenSiblings ==
    /\ call.op = "_build_directory_tree"
    /\ \E i, j, k \in 1..Len(result) :
           /\ i < j /\ j < k
           /\ result[i].kind = "dir"
           /\ result[i].item = Append(root_directory, <<"e", "m", "p", "t", "y">>)
           /\ result[j].kind = "denied"
           /\ result[j].item = Append(root_directory, <<"l", "o", "c", "k", "e", "d">>)
           /\ result[k].kind = "dir"
           /\ result[k].item = Append(root_directory, <<"p", "k", "g">>)

(***************************************************************************)
(* Properties of the setup-file parser                                     *)
(***************************************************************************)
\* where the declared lists of the text start: each  install_requires = [...]
\* and each  requires = [...]  holds the word requires once
DeclaredLists(text) ==
    {i \in 1..Len(text) : match_list_at(text, i, <<"r", "e", "q", "u", "i", "r", "e", "s">>).matched}

\* the quoted strings of each declared list
QuotedStrings(text) ==
    [i \in DeclaredLists(text) |->
        findall_quoted(match_list_at(text, i, <<"r", "e", "q", "u", "i", "r", "e", "s">>).group, 1)]

\* C15: each quoted string inside an  install_requires = [...]  or a
\* requires = [...]  list contributes exactly one entry, so the list is as
\* long as the number of quoted strings in the declared lists.
C15_OneEntryPerQuotedString ==
    (call.op = "_parse_setup_file" /\ ~result.raised)
        => \A text \in {fs[Manifest(call.args[1])].content} :
               Len(result.deps)
                   = SumLen(QuotedStrings(text), DeclaredLists(text))

(***************************************************************************)
(* Properties of the configured root                                       *)
(***************************************************************************)
\* a and b are the same configured root, None included
SameRoot(a, b) ==
    IF a = None THEN b = None ELSE IF b = None THEN FALSE ELSE a = b

\* C16: a set_project_root call that returns an error text leaves the
\* configured root as it was, and one that reports success makes it the
\* resolved path of the call.
C16_RootChangesOnlyOnSuccess ==
    call.op = "set_project_root"
        => IF result.error
           THEN SameRoot(root_directory, root_before)
           ELSE SameRoot(root_directory, resolve(call.args[1]))

(***************************************************************************)
(* Properties of read_file                                                 *)
(***************************************************************************)
\* the location that the argument of read_file denotes
Denoted(file_path) ==
    os_path(fs, IF file_path.absolute THEN file_path.parts
                ELSE root_directory \o file_path.parts)

\* C17: read_file of an argument, relative, relative with '..' or absolute,
\* that denotes a location outside the configured root returns an error text
\* and none of the file's content.
C17_ReadOnlyUnderRoot ==
    (/\ call.op = "read_file"
     /\ root_directory # None
     /\ ~is_under(Denoted(call.args[1]), root_directory))
        => result.error /\ result.body = <<>>

====
